---- MODULE Spec2Model ----
(***************************************************************************)
(* A model of the HiveDB server: the Liquid Cache                          *)
(* (services/liquid_cache/liquid_cache.py), the query optimizer            *)
(* (services/query_optimizer/optimizer.py) and the cell data handlers of   *)
(* the HTTP API (main.py).                                                 *)
(*                                                                         *)
(* Conventions.  Python's None is the string "None".  A Python dict is a   *)
(* sequence of entries in insertion order (dicts keep insertion order and  *)
(* the eviction code depends on it).  Layer i of the code is element i+1   *)
(* of cache_layers.  Time is counted in seconds.  predicted_score is kept  *)
(* in tenths (0.8 is 8) so that the layer score stays an integer.          *)
(***************************************************************************)
EXTENDS Integers, Sequences, FiniteSets, TLC

VARIABLES
    \* ---- LiquidCache ----
    num_layers,      \* LiquidCache.num_layers
    cache_layers,    \* LiquidCache.cache_layers
    last_cleanup,    \* LiquidCache.last_cleanup
    now,             \* the wall clock, time.time()
    lc_ops,          \* number of cache calls and clock advances so far
    lc_call,         \* the last cache call and what it returned
    lc_written,      \* history: the value of the most recent set per key
    query_patterns,  \* LiquidCache.query_patterns
    last_queries,    \* LiquidCache.last_queries
    \* ---- QueryOptimizer ----
    is_initialized,  \* QueryOptimizer.is_initialized
    query_cache,     \* QueryOptimizer.query_cache
    qo_query,        \* the query of the current call
    qo_data,         \* the input list of the current call
    qo_result,       \* what the call returned
    qo_pc,           \* "idle", "call" (called, not returned) or "done"
    \* ---- HTTP API (main.py) ----
    sgx_initialized, \* sgx_enclave.is_initialized
    cell_store,      \* the rows of cells/<cell_key>/data.db, per cell
    response,        \* the last request and the response it got
    created_cells,   \* number of cells POST /cells created
    \* ---- SGXEnclave (services/sgx/enclave.py), simulation mode ----
    master_key,      \* SGXEnclave.master_key
    master_key_file, \* the contents of sealed_data/master.key
    key_cache,       \* SGXEnclave.key_cache
    last_rotation,   \* SGXEnclave.last_rotation
    sg_fresh,        \* number of random values drawn so far (secrets.token_bytes)
    sg_call,         \* the last enclave call and what it returned
    sg_issued,       \* history: the envelopes encrypt_data returned, with their plaintexts
    sg_hashes,       \* history: the digests secure_hash returned, with their data
    \* ---- KafkaProducer (services/kafka/producer.py) ----
    kafka_is_ready,  \* KafkaProducer.is_ready
    published,       \* the events the broker received, and what became of the
                     \* last publication
    \* ---- the catalog database (services/auth/models.py) ----
    db_users,        \* the rows of users
    db_cells,        \* the rows of cells
    db_ownerships,   \* the rows of cell_ownerships
    cc_request,      \* the create_cell request in progress
    \* ---- account lockout (services/security/advanced_security.py) ----
    audit_logs,      \* the rows of the table audit_logs the lockout code writes
    user_locks,      \* email -> the is_locked / locked_until the lockout code keeps
    utcnow,          \* datetime.utcnow(), in minutes
    lock_call,       \* the last call of the lockout code and its outcome
    failed_logins,   \* history: the failed logins reported, as [email, at]
    last_success,    \* history: email -> number of failed logins reported before its last
                     \* successful login, -1 if it had none
    \* ---- requests in flight (uvicorn serving main:app) ----
    calls,           \* client -> its request: position, arguments and response
    commits,         \* history: the values written to the item, in commit order
    returned_upto,   \* history: the latest position in commits of a put that returned
    \* ---- threads calling LiquidCache.register_query with a load_func ----
    stats,           \* LiquidCache.hits, misses, predictions, successful_predictions
    threads,         \* thread -> its position in register_query and in its preload_worker
    counted,         \* history: the increments of the counters the threads completed
    last_step,       \* the statement executed last, and whether it held LiquidCache.lock
    \* ---- threads calling SGXEnclave._derive_key_for_data ----
    derivers,        \* thread -> its position in the call, and its local variables
    \* ---- KafkaConsumer (services/kafka/consumer.py) ----
    consumers,       \* KafkaConsumer.consumers: the topics that have a started consumer
    handlers,        \* KafkaConsumer.handlers: topic -> whether it has an entry, and its list
    running,         \* KafkaConsumer.running
    starts,          \* the calls of start in progress
    received,        \* history: the records received, with the handlers subscribed then
                     \* and the handlers invoked
    subscribed,      \* history: the <<topic, handler>> registered since the last stop
    \* ---- AdvancedSecurity.rate_limit_middleware ----
    rate_limit_cache, \* AdvancedSecurity.rate_limit_cache: address -> requests, last_request
    blocked_ips,      \* AdvancedSecurity.blocked_ips
    unblock_tasks,    \* the remove_block tasks asleep: [ip, at]
    limiter_log,      \* history: the requests the middleware saw: address, time, whether
                      \* the address was blocked, and the outcome
    \* ---- HexagonalQueryEngine (services/hexagonal_query_engine.py) ----
    hex_cells,       \* the coordinates <<x, y>> of the rows of the table cells
    hex_call         \* the last call of get_neighbors and what it returned

cacheVars == <<num_layers, cache_layers, last_cleanup, now, lc_ops, lc_call, lc_written,
               query_patterns, last_queries>>
queryVars == <<is_initialized, query_cache, qo_query, qo_data, qo_result, qo_pc>>
apiVars == <<sgx_initialized, cell_store, response, created_cells>>
sgxVars == <<master_key, master_key_file, key_cache, last_rotation, sg_fresh, sg_call,
             sg_issued, sg_hashes>>
busVars == <<kafka_is_ready, published>>
catalogVars == <<db_users, db_cells, db_ownerships, cc_request>>
lockVars == <<audit_logs, user_locks, utcnow, lock_call, failed_logins, last_success>>
reqVars == <<calls, commits, returned_upto>>
threadVars == <<stats, threads, counted, last_step>>
keyVars == <<derivers>>
consumerVars == <<consumers, handlers, running, starts, received, subscribed>>
limiterVars == <<rate_limit_cache, blocked_ips, unblock_tasks, limiter_log>>
hexVars == <<hex_cells, hex_call>>
moreVars == <<threadVars, keyVars, consumerVars, limiterVars, hexVars>>
extVars == <<catalogVars, lockVars, reqVars, moreVars>>
vars == <<cacheVars, queryVars, apiVars, sgxVars, busVars, extVars>>

None == "None"

(***************************************************************************)
(* Bounds of the model                                                     *)
(***************************************************************************)
MaxLayers == 4
MaxOps == 5
MaxSize == 2

CacheKeys == {"k1", "k2"}
CacheValues == {"v1", "v2"}
TickSteps == {200}
TtlArgs == {0, 100}

(***************************************************************************)
(* Program constants                                                       *)
(***************************************************************************)
LIQUID_CACHE_TTL == 3600
cleanup_interval == 300
PredictedScore == 8

(***************************************************************************)
(* Python dict helpers                                                     *)
(***************************************************************************)
HasKey(d, k) == \E i \in 1..Len(d) : d[i].key = k

ItemOf(d, k) == d[CHOOSE i \in 1..Len(d) : d[i].key = k]

DictDel(d, k) == SelectSeq(d, LAMBDA it : it.key # k)

DictPut(d, item) ==
    IF HasKey(d, item.key)
    THEN [i \in 1..Len(d) |-> IF d[i].key = item.key THEN item ELSE d[i]]
    ELSE Append(d, item)

TotalSize(layers) ==
    LET RECURSIVE Sum(_)
        Sum(i) == IF i = 0 THEN 0 ELSE Len(layers[i]) + Sum(i - 1)
    IN Sum(Len(layers))

Min(a, b) == IF a < b THEN a ELSE b

(***************************************************************************)
(* CacheItem                                                               *)
(***************************************************************************)
CacheItem(key, value, ttl, t) ==
    [key |-> key, value |-> value, created_at |-> t, last_accessed |-> t,
     access_count |-> 1, ttl |-> ttl, layer |-> 0, predicted_score |-> 0]

access(item, t) ==
    [item EXCEPT !.last_accessed = t, !.access_count = item.access_count + 1]

is_expired(item, t) == t > item.created_at + item.ttl

time_since_last_access(item, t) == t - item.last_accessed

(***************************************************************************)
(* LiquidCache._move_between_layers                                        *)
(***************************************************************************)
_move_between_layers(layers, key, from_layer, to_layer) ==
    IF HasKey(layers[from_layer + 1], key)
    THEN LET item == [ItemOf(layers[from_layer + 1], key) EXCEPT !.layer = to_layer]
             popped == [layers EXCEPT ![from_layer + 1] = DictDel(@, key)]
         IN [popped EXCEPT ![to_layer + 1] = DictPut(@, item)]
    ELSE layers

(***************************************************************************)
(* LiquidCache._update_item_layer.  score > T is decided on integers:      *)
(*   score = access_count / max(1, tsla / 3600) * (1 + predicted_score)    *)
(* so score > T  iff  access_count * (10 + ps) * 3600 > T * 10 * max(3600, *)
(* tsla).                                                                  *)
(***************************************************************************)
ScoreAbove(item, t, T) ==
    LET tsla == time_since_last_access(item, t)
        den  == IF tsla > 3600 THEN tsla ELSE 3600
    IN item.access_count * (10 + item.predicted_score) * 3600 > T * 10 * den

TargetLayer(item, t, L) ==
    IF ScoreAbove(item, t, 10) THEN 0
    ELSE IF ScoreAbove(item, t, 5) THEN 1
    ELSE IF ScoreAbove(item, t, 1) THEN Min(2, L - 1)
    ELSE Min(3, L - 1)

_update_item_layer(layers, item, t) ==
    LET L == Len(layers)
        current_layer == item.layer
        target_layer == TargetLayer(item, t, L)
    IN IF target_layer # current_layer /\ target_layer < L
       THEN _move_between_layers(layers, item.key, current_layer, target_layer)
       ELSE layers

(***************************************************************************)
(* LiquidCache._cleanup: drop expired entries, then evict from the coldest *)
(* layer upwards, least used and least recently used first.  list.sort is  *)
(* stable, so ties are evicted in dict order.                              *)
(***************************************************************************)
DropExpired(layers, t) ==
    [l \in 1..Len(layers) |-> SelectSeq(layers[l], LAMBDA it : ~is_expired(it, t))]

\* an order that evicts the most used entries first
EvictMostUsedFirst(x, y, t) ==
    \/ x.access_count > y.access_count
    \/ /\ x.access_count = y.access_count
       /\ time_since_last_access(x, t) > time_since_last_access(y, t)

\* (access_count, -time_since_last_access) ascending
EvictBefore(x, y, t) ==
    \/ x.access_count < y.access_count
    \/ /\ x.access_count = y.access_count
       /\ time_since_last_access(x, t) > time_since_last_access(y, t)

\* position of d[i] in the stably sorted list (1-based)
EvictRank(d, i, t) ==
    1 + Cardinality({j \in 1..Len(d) :
                        \/ EvictBefore(d[j], d[i], t)
                        \/ (~EvictBefore(d[i], d[j], t) /\ j < i)})

EvictFromLayer(d, n, t) ==
    LET keep == {i \in 1..Len(d) : EvictRank(d, i, t) > n}
        RECURSIVE Build(_)
        Build(i) == IF i > Len(d) THEN <<>>
                    ELSE IF i \in keep THEN <<d[i]>> \o Build(i + 1)
                    ELSE Build(i + 1)
    IN Build(1)

RECURSIVE EvictLayers(_, _, _, _)
EvictLayers(layers, l, items_to_remove, t) ==
    IF l = 0 \/ items_to_remove <= 0 THEN layers
    ELSE LET n == Min(items_to_remove, Len(layers[l]))
             after == [layers EXCEPT ![l] = EvictFromLayer(@, n, t)]
         IN EvictLayers(after, l - 1, items_to_remove - n, t)

_cleanup(layers, lastc, t, force) ==
    IF ~force /\ t - lastc < cleanup_interval
    THEN [layers |-> layers, last_cleanup |-> lastc]
    ELSE LET live == DropExpired(layers, t)
             total_size == TotalSize(live)
         IN [layers |-> IF total_size <= MaxSize THEN live
                        ELSE EvictLayers(live, Len(live), total_size - MaxSize, t),
             last_cleanup |-> t]

(***************************************************************************)
(* LiquidCache.get                                                         *)
(***************************************************************************)
FirstLayerWith(layers, key) ==
    IF \E l \in 1..Len(layers) : HasKey(layers[l], key)
    THEN CHOOSE l \in 1..Len(layers) :
            /\ HasKey(layers[l], key)
            /\ \A m \in 1..(l - 1) : ~HasKey(layers[m], key)
    ELSE 0

LC_get(layers, lastc, key, t) ==
    LET c == _cleanup(layers, lastc, t, FALSE)
        l == FirstLayerWith(c.layers, key)
    IN IF l = 0
       THEN [layers |-> c.layers, last_cleanup |-> c.last_cleanup, value |-> None,
             hit |-> FALSE, item |-> None]
       ELSE LET item == ItemOf(c.layers[l], key)
            IN IF is_expired(item, t)
               THEN [layers |-> [c.layers EXCEPT ![l] = DictDel(@, key)],
                     last_cleanup |-> c.last_cleanup, value |-> None,
                     hit |-> FALSE, item |-> None]
               ELSE LET acc == access(item, t)
                        touched == [c.layers EXCEPT ![l] = DictPut(@, acc)]
                    IN [layers |-> _update_item_layer(touched, acc, t),
                        last_cleanup |-> c.last_cleanup, value |-> acc.value,
                        hit |-> TRUE, item |-> acc]

(***************************************************************************)
(* LiquidCache.set.  ttl = 0 stands for the default argument (ttl or       *)
(* self.default_ttl).                                                      *)
(***************************************************************************)
\* a placement of the new entries in the coldest layer
NewItemColdest(predicted, L) == IF predicted THEN 1 ELSE L - 1

NewItemLayer(predicted, L) == IF predicted THEN 1 ELSE Min(2, L - 1)

LC_set(layers, lastc, key, value, ttl, predicted, t) ==
    LET c == _cleanup(layers, lastc, t, FALSE)
        target_layer == NewItemLayer(predicted, Len(layers))
        item == [CacheItem(key, value, IF ttl = 0 THEN LIQUID_CACHE_TTL ELSE ttl, t)
                    EXCEPT !.predicted_score = IF predicted THEN PredictedScore ELSE 0,
                           !.layer = target_layer]
        stored == [c.layers EXCEPT ![target_layer + 1] = DictPut(@, item)]
    IN IF TotalSize(stored) > MaxSize
       THEN _cleanup(stored, c.last_cleanup, t, TRUE)
       ELSE [layers |-> stored, last_cleanup |-> c.last_cleanup]

(***************************************************************************)
(* LiquidCache.delete and LiquidCache.clear                                *)
(***************************************************************************)
LC_delete(layers, key) ==
    LET l == FirstLayerWith(layers, key)
    IN IF l = 0 THEN [layers |-> layers, value |-> FALSE]
       ELSE [layers |-> [layers EXCEPT ![l] = DictDel(@, key)], value |-> TRUE]

LC_clear(layers) == [l \in 1..Len(layers) |-> <<>>]

(***************************************************************************)
(* The cache as a state machine: the public operations and the clock       *)
(***************************************************************************)
NoCall == [op |-> "none", key |-> None, value |-> None, expired |-> FALSE,
           predicted |-> FALSE]

CacheInit ==
    /\ num_layers \in 2..MaxLayers
    /\ cache_layers = [l \in 1..num_layers |-> <<>>]
    /\ last_cleanup = 0
    /\ now = 0
    /\ lc_ops = 0
    /\ lc_call = NoCall
    /\ lc_written = [k \in CacheKeys |-> None]
    /\ query_patterns = <<>>
    /\ last_queries = <<>>

CacheGet(key) ==
    LET r == LC_get(cache_layers, last_cleanup, key, now)
    IN /\ lc_ops < MaxOps
       /\ cache_layers' = r.layers
       /\ last_cleanup' = r.last_cleanup
       /\ lc_call' = [op |-> "get", key |-> key, value |-> r.value, predicted |-> FALSE,
                     expired |-> r.hit /\ is_expired(r.item, now)]
       /\ lc_ops' = lc_ops + 1
       /\ UNCHANGED <<num_layers, now, lc_written, query_patterns, last_queries>>
       /\ UNCHANGED <<queryVars, apiVars, sgxVars, busVars, extVars>>

CacheSet(key, value, ttl, predicted) ==
    LET r == LC_set(cache_layers, last_cleanup, key, value, ttl, predicted, now)
    IN /\ lc_ops < MaxOps
       /\ cache_layers' = r.layers
       /\ last_cleanup' = r.last_cleanup
       /\ lc_call' = [op |-> "set", key |-> key, value |-> value, expired |-> FALSE,
                     predicted |-> predicted]
       /\ lc_written' = [lc_written EXCEPT ![key] = value]
       /\ lc_ops' = lc_ops + 1
       /\ UNCHANGED <<num_layers, now, query_patterns, last_queries>>
       /\ UNCHANGED <<queryVars, apiVars, sgxVars, busVars, extVars>>

CacheDelete(key) ==
    LET r == LC_delete(cache_layers, key)
    IN /\ lc_ops < MaxOps
       /\ cache_layers' = r.layers
       /\ lc_call' = [op |-> "delete", key |-> key, value |-> None, expired |-> FALSE,
                     predicted |-> FALSE]
       /\ lc_ops' = lc_ops + 1
       /\ UNCHANGED <<num_layers, last_cleanup, now, lc_written, query_patterns, last_queries>>
       /\ UNCHANGED <<queryVars, apiVars, sgxVars, busVars, extVars>>

CacheClear ==
    /\ lc_ops < MaxOps
    /\ cache_layers' = LC_clear(cache_layers)
    /\ lc_call' = [op |-> "clear", key |-> None, value |-> None, expired |-> FALSE,
                   predicted |-> FALSE]
    /\ lc_ops' = lc_ops + 1
    /\ UNCHANGED <<num_layers, last_cleanup, now, lc_written, query_patterns, last_queries>>
    /\ UNCHANGED <<queryVars, apiVars, sgxVars, busVars, extVars>>

Tick(d) ==
    /\ lc_ops < MaxOps
    /\ now' = now + d
    /\ lc_ops' = lc_ops + 1
    /\ UNCHANGED <<num_layers, cache_layers, last_cleanup, lc_call, lc_written, query_patterns, last_queries>>
    /\ UNCHANGED <<queryVars, apiVars, sgxVars, busVars, extVars>>

CacheNext ==
    \/ \E k \in CacheKeys : CacheGet(k)
    \/ \E k \in CacheKeys, v \in CacheValues, ttl \in TtlArgs, p \in BOOLEAN :
          CacheSet(k, v, ttl, p)
    \/ \E k \in CacheKeys : CacheDelete(k)
    \/ CacheClear
    \/ \E d \in TickSteps : Tick(d)


(***************************************************************************)
(* QueryOptimizer (services/query_optimizer/optimizer.py)                  *)
(*                                                                         *)
(* An item is a Python dict: a function from the field names it carries to *)
(* integers.  Every item carries "key" (its position in the input, as the  *)
(* rows of a cell carry their primary key) and "b"; "a" is optional.       *)
(* A query is [has_filter, filter, has_sort, sort, has_limit, limit]; the  *)
(* has_ flags stand for the presence of the key in the query dict.         *)
(* filter is a sequence of conditions [field, op, value]: op "scalar" is   *)
(* the simple equality  {field: value}, any other op is {field: {op:       *)
(* value}}; for "in" and "nin" the list is [value].  A sort field is       *)
(* [desc, field]: desc is the leading '-' (a leading '+' is stripped by    *)
(* both paths and means the same as no sign).                              *)
(* A result is [status, items]: status "error" is an exception that leaves *)
(* the function.                                                           *)
(***************************************************************************)
NaN == -1
DaskThreshold == 10000

Ok(items) == [status |-> "ok", items |-> items]
Raised == [status |-> "error", items |-> <<>>]

Take(s, n) == SubSeq(s, 1, Min(n, Len(s)))

\* the index sequence idx (a sequence of positions of s) applied to s
Pick(s, idx) == [i \in 1..Len(idx) |-> s[idx[i]]]

(***************************************************************************)
(* QueryOptimizer._match_filters and _apply_filters (plain list path)      *)
(***************************************************************************)
CompareOp(op, x, value) ==
    CASE op = "scalar" -> x = value
      [] op = "eq"     -> x = value
      [] op = "ne"     -> x # value
      [] op = "gt"     -> x > value
      [] op = "gte"    -> x >= value
      [] op = "lt"     -> x < value
      [] op = "lte"    -> x <= value
      [] op = "in"     -> x \in {value}
      [] op = "nin"    -> x \notin {value}
      [] OTHER         -> TRUE

_match_filters(item, filters) ==
    \A n \in 1..Len(filters) :
        /\ filters[n].field \in DOMAIN item
        /\ CompareOp(filters[n].op, item[filters[n].field], filters[n].value)

_apply_filters(data, filters) ==
    SelectSeq(data, LAMBDA item : _match_filters(item, filters))

(***************************************************************************)
(* QueryOptimizer._apply_sorting: one stable sort per field, from the last *)
(* listed field to the first.  sorted() compares the keys x.get(field,     *)
(* None); comparing None raises TypeError, which happens as soon as two    *)
(* items are sorted and one of them lacks the field.                       *)
(***************************************************************************)
\* sorted(data, key=..., reverse=...) on keys that are all integers
SortedRank(data, i, field, reverse) ==
    1 + Cardinality({j \in 1..Len(data) :
            \/ (~reverse /\ data[j][field] < data[i][field])
            \/ (reverse /\ data[j][field] > data[i][field])
            \/ (data[j][field] = data[i][field] /\ j < i)})

sorted(data, field, reverse) ==
    [p \in 1..Len(data) |->
        data[CHOOSE i \in 1..Len(data) : SortedRank(data, i, field, reverse) = p]]

SortRaises(data, field) ==
    Len(data) >= 2 /\ \E i \in 1..Len(data) : field \notin DOMAIN data[i]

RECURSIVE SortingFrom(_, _, _)
SortingFrom(res, sort_fields, n) ==
    IF n = 0 \/ res.status = "error" THEN res
    ELSE IF SortRaises(res.items, sort_fields[n].field) THEN Raised
    ELSE IF Len(res.items) <= 1 THEN SortingFrom(res, sort_fields, n - 1)
    ELSE SortingFrom(Ok(sorted(res.items, sort_fields[n].field, sort_fields[n].desc)),
                     sort_fields, n - 1)

\* a variant that sorts from the first listed field to the last
RECURSIVE SortingUpTo(_, _, _)
SortingUpTo(res, sort_fields, n) ==
    IF n > Len(sort_fields) \/ res.status = "error" THEN res
    ELSE IF SortRaises(res.items, sort_fields[n].field) THEN Raised
    ELSE IF Len(res.items) <= 1 THEN SortingUpTo(res, sort_fields, n + 1)
    ELSE SortingUpTo(Ok(sorted(res.items, sort_fields[n].field, sort_fields[n].desc)),
                     sort_fields, n + 1)

_apply_sorting_forward(data, sort_fields) == SortingUpTo(Ok(data), sort_fields, 1)

_apply_sorting(data, sort_fields) == SortingFrom(Ok(data), sort_fields, Len(sort_fields))

(***************************************************************************)
(* QueryOptimizer._execute_standard_query                                  *)
(***************************************************************************)
_execute_standard_query(query, data) ==
    LET filtered == IF query.has_filter THEN _apply_filters(data, query.filter) ELSE data
        ordered  == IF query.has_sort THEN _apply_sorting(filtered, query.sort)
                    ELSE Ok(filtered)
    IN IF ordered.status = "error" THEN Raised
       ELSE IF query.has_limit THEN Ok(Take(ordered.items, query.limit))
       ELSE ordered

(***************************************************************************)
(* The tabular path.  pd.DataFrame(data) has one column per field carried  *)
(* by some item and NaN where an item lacks the field; to_dict('records')  *)
(* returns every row with every column.                                    *)
(***************************************************************************)
Columns(data) == UNION {DOMAIN data[i] : i \in 1..Len(data)}

_convert_to_dataframe(data) ==
    [i \in 1..Len(data) |->
        [f \in Columns(data) |-> IF f \in DOMAIN data[i] THEN data[i][f] ELSE NaN]]

\* elementwise comparison of a column cell: every comparison with NaN is
\* False except !=, and isin is False on NaN
PandasCompare(op, x, value) ==
    IF x = NaN THEN op \in {"ne", "nin"}
    ELSE CompareOp(op, x, value)

\* QueryOptimizer._apply_pandas_filters (and _apply_dask_filters)
PandasMask(row, cols, filters) ==
    \A n \in 1..Len(filters) :
        \/ filters[n].field \notin cols
        \/ filters[n].op \notin {"scalar", "eq", "ne", "gt", "gte", "lt", "lte", "in", "nin"}
        \/ PandasCompare(filters[n].op, row[filters[n].field], filters[n].value)

_apply_pandas_filters(df, cols, filters) ==
    SelectSeq(df, LAMBDA row : PandasMask(row, cols, filters))

\* x sorts strictly before y on one sort field; NaN sorts last in both directions
ColumnBefore(x, y, sf) ==
    IF x[sf.field] = NaN THEN FALSE
    ELSE IF y[sf.field] = NaN THEN TRUE
    ELSE IF sf.desc THEN x[sf.field] > y[sf.field]
    ELSE x[sf.field] < y[sf.field]

ColumnTie(x, y, sf) == ~ColumnBefore(x, y, sf) /\ ~ColumnBefore(y, x, sf)

\* lexicographic order over the sort fields n..Len: the first listed decides
RECURSIVE LexBefore(_, _, _, _)
LexBefore(x, y, sort_fields, n) ==
    IF n > Len(sort_fields) THEN FALSE
    ELSE \/ ColumnBefore(x, y, sort_fields[n])
         \/ /\ ColumnTie(x, y, sort_fields[n])
            /\ LexBefore(x, y, sort_fields, n + 1)

IndexPermutations(n) ==
    {p \in [1..n -> 1..n] : \A i, j \in 1..n : p[i] = p[j] => i = j}

\* df.sort_values(by, ascending): with several columns a stable lexsort,
\* with one column the default kind 'quicksort', which is not stable: rows
\* with equal values may come out in any order, rows with NaN follow in
\* their input order.
sort_values(df, sort_fields) ==
    IF Len(sort_fields) > 1
    THEN {Pick(df, p) : p \in {q \in IndexPermutations(Len(df)) :
            \A i, j \in 1..Len(df) : i < j =>
                \/ LexBefore(df[q[i]], df[q[j]], sort_fields, 1)
                \/ (~LexBefore(df[q[j]], df[q[i]], sort_fields, 1) /\ q[i] < q[j])}}
    ELSE {Pick(df, p) : p \in {q \in IndexPermutations(Len(df)) :
            \A i, j \in 1..Len(df) : i < j =>
                \/ ColumnBefore(df[q[i]], df[q[j]], sort_fields[1])
                \/ /\ ColumnTie(df[q[i]], df[q[j]], sort_fields[1])
                   /\ (df[q[i]][sort_fields[1].field] = NaN => q[i] < q[j])}}

\* QueryOptimizer._execute_optimized_query: the set of results the call
\* can produce; a sort field that is no column raises KeyError
_execute_optimized_query(query, data) ==
    LET cols == Columns(data)
        df == _convert_to_dataframe(data)
        filtered == IF query.has_filter THEN _apply_pandas_filters(df, cols, query.filter)
                    ELSE df
    IN IF query.has_sort /\ \E n \in 1..Len(query.sort) : query.sort[n].field \notin cols
       THEN {Raised}
       ELSE {Ok(IF query.has_limit THEN Take(ordered, query.limit) ELSE ordered) :
                ordered \in IF query.has_sort THEN sort_values(filtered, query.sort)
                            ELSE {filtered}}

\* QueryOptimizer._execute_parallel_query: the same pipeline on a Dask
\* dataframe, taken above DaskThreshold rows
_execute_parallel_query(query, data) == _execute_optimized_query(query, data)

(***************************************************************************)
(* QueryOptimizer.optimize_query: the set of [result, query_cache] pairs   *)
(* the call can end with.  The cache key json.dumps(query, sort_keys=True) *)
(* is the query itself; query_cache is a set of [query, result] entries.   *)
(***************************************************************************)
CacheHas(qc, query) == \E e \in qc : e.query = query

CacheLookup(qc, query) == (CHOOSE e \in qc : e.query = query).result

CachePut(qc, query, result) ==
    {e \in qc : e.query # query} \cup {[query |-> query, result |-> result]}

optimize_query(initialized, qc, query, data) ==
    IF ~initialized
    THEN {[result |-> _execute_standard_query(query, data), query_cache |-> qc]}
    ELSE IF CacheHas(qc, query)
    THEN {[result |-> Ok(CacheLookup(qc, query)), query_cache |-> qc]}
    ELSE {IF r.status = "error"
          THEN [result |-> _execute_standard_query(query, data), query_cache |-> qc]
          ELSE [result |-> r, query_cache |-> CachePut(qc, query, r.items)] :
            r \in IF Len(data) > DaskThreshold
                  THEN _execute_parallel_query(query, data)
                  ELSE _execute_optimized_query(query, data)}

(***************************************************************************)
(* The inputs of the evaluator                                             *)
(***************************************************************************)
MaxItems == 2

FieldValues == {0, 1}

ItemsAt(i) ==
    {[key |-> i, a |-> x, b |-> y] : x \in FieldValues, y \in FieldValues}
        \cup {[key |-> i, b |-> y] : y \in FieldValues}

RECURSIVE DataOfLen(_)
DataOfLen(n) ==
    IF n = 0 THEN {<<>>}
    ELSE {Append(d, it) : d \in DataOfLen(n - 1), it \in ItemsAt(n)}

DataLists == UNION {DataOfLen(n) : n \in 0..MaxItems}

Conditions ==
    {[field |-> f, op |-> o, value |-> 1] :
        f \in {"a", "b"}, o \in {"scalar", "eq", "ne", "gt", "gte", "in", "nin"}}
    \cup {[field |-> f, op |-> o, value |-> 1] : f \in {"a"}, o \in {"lt", "lte"}}

Filters == {<<c>> : c \in Conditions}

SortFields == {[desc |-> d, field |-> f] : d \in BOOLEAN, f \in {"a", "b"}}

SortLists ==
    {<<s>> : s \in SortFields}
        \cup {p \in SortFields \X SortFields : p[1].field # p[2].field}

Limits == {0, 1}

Queries ==
    {[has_filter |-> hf, filter |-> IF hf THEN f ELSE <<>>,
      has_sort |-> hs, sort |-> IF hs THEN s ELSE <<>>,
      has_limit |-> hl, limit |-> IF hl THEN l ELSE 0] :
        hf \in BOOLEAN, f \in Filters, hs \in BOOLEAN, s \in SortLists,
        hl \in BOOLEAN, l \in Limits}

(***************************************************************************)
(* The evaluator as a state machine.  Evaluate: one call on a fresh        *)
(* instance with inputs drawn at the start.  Submit/Optimize: a sequence   *)
(* of calls on one instance, which keeps its query_cache between them.     *)
(***************************************************************************)
QueryInit ==
    /\ is_initialized \in BOOLEAN
    /\ query_cache = {}
    /\ qo_query \in Queries
    /\ qo_data \in DataLists
    /\ qo_result = Ok(<<>>)
    /\ qo_pc = "call"

Evaluate ==
    /\ qo_pc = "call"
    /\ \E r \in optimize_query(is_initialized, query_cache, qo_query, qo_data) :
          /\ qo_result' = r.result
          /\ query_cache' = r.query_cache
    /\ qo_pc' = "done"
    /\ UNCHANGED <<is_initialized, qo_query, qo_data>>
    /\ UNCHANGED <<cacheVars, apiVars, sgxVars, busVars, extVars>>

QueryNext == Evaluate

\* a sequence of calls on one instance
OptItemsAt(i) == {[key |-> i, a |-> x, b |-> y] : x \in FieldValues, y \in FieldValues}

RECURSIVE OptDataOfLen(_)
OptDataOfLen(n) ==
    IF n = 0 THEN {<<>>}
    ELSE {Append(d, it) : d \in OptDataOfLen(n - 1), it \in OptItemsAt(n)}

OptData == UNION {OptDataOfLen(n) : n \in 0..MaxItems}

OptQueries ==
    {[has_filter |-> FALSE, filter |-> <<>>, has_sort |-> FALSE, sort |-> <<>>,
      has_limit |-> TRUE, limit |-> 1],
     [has_filter |-> TRUE, filter |-> <<[field |-> "b", op |-> "scalar", value |-> 1]>>,
      has_sort |-> FALSE, sort |-> <<>>, has_limit |-> FALSE, limit |-> 0]}

OptimizerInit ==
    /\ is_initialized \in BOOLEAN
    /\ query_cache = {}
    /\ qo_query \in OptQueries
    /\ qo_data \in OptData
    /\ qo_result = Ok(<<>>)
    /\ qo_pc = "call"

Submit(query, data) ==
    /\ qo_pc = "done"
    /\ qo_query' = query
    /\ qo_data' = data
    /\ qo_pc' = "call"
    /\ UNCHANGED <<is_initialized, query_cache, qo_result>>
    /\ UNCHANGED <<cacheVars, apiVars, sgxVars, busVars, extVars>>

OptimizerNext ==
    \/ \E q \in OptQueries, d \in OptData : Submit(q, d)
    \/ Evaluate


(***************************************************************************)
(* LiquidCache pattern learning: QueryPattern, _extract_pattern,           *)
(* _update_patterns and register_query.  A pattern is the pair of the      *)
(* query type and the cell_key parameter (the other parameters the         *)
(* handlers pass are not among those _extract_pattern keeps).              *)
(* avg_interval is the mean of last_intervals and is not stored.           *)
(***************************************************************************)
max_pattern_history == 100
MaxIntervals == 10

QueryPattern(pattern, t) ==
    [key |-> pattern, count |-> 1, last_seen |-> t, next_patterns |-> <<>>,
     last_intervals |-> <<>>]

QueryPattern_update(p, t) ==
    LET appended == Append(p.last_intervals, t - p.last_seen)
    IN [p EXCEPT !.last_intervals = IF Len(appended) > MaxIntervals THEN Tail(appended)
                                    ELSE appended,
                 !.count = p.count + 1,
                 !.last_seen = t]

\* a successor count that is set instead of raised
add_next_pattern_set(p, next_pattern) ==
    [p EXCEPT !.next_patterns =
        IF HasKey(p.next_patterns, next_pattern)
        THEN DictPut(@, [key |-> next_pattern, count |-> 1])
        ELSE Append(@, [key |-> next_pattern, count |-> 1])]

add_next_pattern(p, next_pattern) ==
    [p EXCEPT !.next_patterns =
        IF HasKey(p.next_patterns, next_pattern)
        THEN DictPut(@, [key |-> next_pattern,
                         count |-> ItemOf(@, next_pattern).count + 1])
        ELSE Append(@, [key |-> next_pattern, count |-> 1])]

_update_patterns(patterns, history, pattern, t) ==
    LET seen == IF ~HasKey(patterns, pattern)
                THEN Append(patterns, QueryPattern(pattern, t))
                ELSE DictPut(patterns, QueryPattern_update(ItemOf(patterns, pattern), t))
        linked == IF history # <<>> /\ HasKey(seen, history[Len(history)])
                  THEN DictPut(seen, add_next_pattern(ItemOf(seen, history[Len(history)]),
                                                      pattern))
                  ELSE seen
        appended == Append(history, pattern)
    IN [query_patterns |-> linked,
        last_queries |-> IF Len(appended) > max_pattern_history THEN Tail(appended)
                         ELSE appended]

_extract_pattern(query_type, cell_key) == <<query_type, cell_key>>

\* register_query as the handlers call it: no result, no load_func
register_query(patterns, history, query_type, cell_key, t) ==
    _update_patterns(patterns, history, _extract_pattern(query_type, cell_key), t)

\* Observations of queries on a cache that loaded no saved patterns: calls
\* of register_query with the parameters the handlers pass, and time
\* passing between them.
MaxObservations == 5
MaxPatternTime == 1
QueryTypes == {"cell_data_access", "cell_query"}
PatternCells == {"c1", "c2"}

RegisterQuery(query_type, cell_key) ==
    /\ lc_ops < MaxObservations
    /\ LET reg == register_query(query_patterns, last_queries, query_type, cell_key, now)
       IN /\ query_patterns' = reg.query_patterns
          /\ last_queries' = reg.last_queries
    /\ lc_ops' = lc_ops + 1
    /\ UNCHANGED <<num_layers, cache_layers, last_cleanup, now, lc_call, lc_written>>
    /\ UNCHANGED <<queryVars, apiVars, sgxVars, busVars, extVars>>

Wait ==
    /\ now < MaxPatternTime
    /\ now' = now + 1
    /\ UNCHANGED <<num_layers, cache_layers, last_cleanup, lc_ops, lc_call, lc_written,
                   query_patterns, last_queries>>
    /\ UNCHANGED <<queryVars, apiVars, sgxVars, busVars, extVars>>

PatternsNext ==
    \/ \E query_type \in QueryTypes, cell_key \in PatternCells :
          RegisterQuery(query_type, cell_key)
    \/ Wait

(***************************************************************************)
(* The HTTP API of main.py: the catalog and the cell data handlers.        *)
(*                                                                         *)
(* The catalog (users, cells, cell_ownerships) is fixed: u1 owns c1, u2 is *)
(* viewer of c1 and editor of c2, u3 owns c2 and has no row for c1; "cx"   *)
(* is a cell key that does not exist.  A request that ends with an         *)
(* exception no handler catches is answered 500.                           *)
(***************************************************************************)
MaxRequests == 3

Users == {"u1", "u2", "u3"}
Cells == {"c1", "c2"}
CellKeys == Cells \cup {"cx"}
ItemKeys == {"k1"}
ItemValues == {"v1", "v2"}

\* CellOwnership.permission_level of the row for (user, cell), "none" without a row
Ownership(user, cell) ==
    CASE user = "u1" /\ cell = "c1" -> "owner"
      [] user = "u2" /\ cell = "c1" -> "viewer"
      [] user = "u2" /\ cell = "c2" -> "editor"
      [] user = "u3" /\ cell = "c2" -> "owner"
      [] OTHER -> "none"

\* a bug to test the claims against: any ownership row gives write access
CanWriteWithAnyRow(level) == level # "none"

\* the write check of store_cell_data and delete_cell_data
CanWrite(level) == level \in {"owner", "editor"}

\* the read check of get_cell_keys, get_cell_data and query_cell_data
CanRead(level) == level # "none"

\* the attributes of a Cell row (services/auth/models.py)
CellAttributes == {"id", "key", "password_hash", "created_at", "updated_at", "owners"}

\* the attributes of the liquid_cache object
LiquidCacheAttributes ==
    {"enabled", "max_size", "default_ttl", "prediction_threshold", "learning_rate",
     "num_layers", "cache_layers", "query_patterns", "last_queries",
     "max_pattern_history", "hits", "misses", "predictions", "successful_predictions",
     "lock", "cleanup_interval", "last_cleanup",
     "_generate_key", "_extract_pattern", "_update_patterns", "_predict_next_queries",
     "_preload_predicted_queries", "_move_between_layers", "_update_item_layer",
     "_cleanup", "_save_patterns", "_load_patterns", "get", "set", "delete", "clear",
     "register_query", "get_stats", "get_hot_patterns"}

\* the tables of the two SQLite files the handlers open: cells/<key>/data.db,
\* created by create_cell, and cells/<key>.db, which sqlite3.connect creates empty
TablesOf(file) == IF file = "cells/<key>/data.db" THEN {"data", "metadata"} ELSE {}

NoQuery == [has_filter |-> FALSE, filter |-> <<>>, has_sort |-> FALSE, sort |-> <<>>,
            has_limit |-> FALSE, limit |-> 0]

\* liquid_cache._generate_key: the md5 of the query type and the sorted
\* parameters, kept as the parameters themselves (a parameter the caller
\* does not pass is None, or the empty query)
_generate_key(query_type, cell_key, data_key, query, user) ==
    [type |-> query_type, cell_key |-> cell_key, data_key |-> data_key,
     query |-> query, user_id |-> user]

ApiQueries == {NoQuery}

Response(op, user, cell, key, status) ==
    [op |-> op, user |-> user, cell |-> cell, key |-> key, status |-> status,
     value |-> None, keys |-> <<>>, results |-> <<>>, committed |-> FALSE,
     cached |-> FALSE, submitted |-> None, encrypt_result |-> "not called",
     encrypted |-> FALSE]

RowKeys(rows) == [i \in 1..Len(rows) |-> rows[i].key]

ApiInit ==
    /\ sgx_initialized \in BOOLEAN
    /\ cell_store = [c \in Cells |-> <<>>]
    /\ response = Response("none", None, None, None, 0)
    /\ created_cells = 0
    /\ is_initialized \in BOOLEAN
    /\ query_cache = {}
    /\ qo_query = NoQuery
    /\ qo_data = <<>>
    /\ qo_result = Ok(<<>>)
    /\ qo_pc = "idle"
    /\ num_layers = MaxLayers
    /\ cache_layers = [l \in 1..num_layers |-> <<>>]
    /\ last_cleanup = 0
    /\ now = 0
    /\ lc_ops = 0
    /\ lc_call = NoCall
    /\ lc_written = [k \in CacheKeys |-> None]
    /\ query_patterns = <<>>
    /\ last_queries = <<>>

apiFrame == <<num_layers, now, lc_call, lc_written, sgx_initialized, created_cells,
              is_initialized,
              qo_query, qo_data, qo_result, qo_pc, sgxVars, busVars, extVars>>

\* one file for all the cells
data_db_shared(cell_key) == "c1"

\* os.path.join(CELLS_DIR, cell_key, "data.db"): the store of a cell is the
\* file under the directory named by its key
data_db(cell_key) == cell_key

\* GET /cells/{cell_key}/keys
get_cell_keys(user, cell_key) ==
    /\ lc_ops < MaxRequests
    /\ lc_ops' = lc_ops + 1
    /\ response' =
          IF cell_key \notin Cells THEN Response("keys", user, cell_key, None, 404)
          ELSE IF ~CanRead(Ownership(user, cell_key))
          THEN Response("keys", user, cell_key, None, 403)
          ELSE [Response("keys", user, cell_key, None, 200)
                    EXCEPT !.keys = RowKeys(cell_store[data_db(cell_key)])]
    /\ UNCHANGED <<apiFrame, cell_store, cache_layers, last_cleanup, query_patterns,
                   last_queries, query_cache>>

\* INSERT or UPDATE of store_cell_data
Upsert(rows, key, value, t) ==
    IF HasKey(rows, key)
    THEN DictPut(rows, [ItemOf(rows, key) EXCEPT !.value = value, !.updated_at = t])
    ELSE Append(rows, [key |-> key, value |-> value, created_at |-> t, updated_at |-> t])

\* what sgx_enclave.encrypt_data can return to store_cell_data
EncryptOutcomes == IF sgx_initialized THEN {"envelope", "None"} ELSE {"plain"}

\* POST /cells/{cell_key}/data.  With the enclave on, is_encrypted is set
\* whatever encrypt_data returned: an envelope (a dict) cannot be bound as
\* an SQL parameter and the execute raises, None is stored as NULL.  After
\* the commit the handler calls liquid_cache.find_related_keys.  The
\* response records the submitted value, what encrypt_data returned and
\* the handler's is_encrypted.
store_cell_data(user, cell_key, key, value) ==
    /\ lc_ops < MaxRequests
    /\ lc_ops' = lc_ops + 1
    /\ IF cell_key \notin Cells
       THEN /\ response' = Response("store", user, cell_key, key, 404)
            /\ UNCHANGED cell_store
       ELSE IF ~CanWrite(Ownership(user, cell_key))
       THEN /\ response' = Response("store", user, cell_key, key, 403)
            /\ UNCHANGED cell_store
       ELSE \E enc \in EncryptOutcomes :
            IF enc = "envelope"
            THEN /\ response' = Response("store", user, cell_key, key, 500)
                 /\ UNCHANGED cell_store
            ELSE /\ cell_store' = [cell_store EXCEPT ![data_db(cell_key)] =
                        Upsert(@, key, IF enc = "None" THEN None ELSE value, now)]
                 /\ response' =
                        [Response("store", user, cell_key, key,
                                  IF "find_related_keys" \in LiquidCacheAttributes
                                  THEN 200 ELSE 500)
                            EXCEPT !.committed = TRUE, !.submitted = value,
                                   !.encrypt_result = IF enc = "plain" THEN "not called"
                                                      ELSE enc,
                                   !.encrypted = sgx_initialized]
    /\ UNCHANGED <<apiFrame, cache_layers, last_cleanup, query_patterns, last_queries,
                   query_cache>>

\* GET /cells/{cell_key}/data/{key}.  The cache is probed and the access
\* pattern registered before any check; after the cell lookup the handler
\* reads cell.owner_id.
get_cell_data(user, cell_key, key) ==
    LET cache_key == _generate_key("cell_data", cell_key, key, NoQuery, user)
        probe == LC_get(cache_layers, last_cleanup, cache_key, now)
        reg == register_query(query_patterns, last_queries, "cell_data_access",
                              cell_key, now)
    IN /\ lc_ops < MaxRequests
       /\ lc_ops' = lc_ops + 1
       /\ cache_layers' = probe.layers
       /\ last_cleanup' = probe.last_cleanup
       /\ IF probe.hit
          THEN /\ response' = [Response("get", user, cell_key, key, 200)
                                  EXCEPT !.value = probe.value.value, !.cached = TRUE]
               /\ UNCHANGED <<query_patterns, last_queries>>
          ELSE /\ query_patterns' = reg.query_patterns
               /\ last_queries' = reg.last_queries
               /\ response' =
                     IF cell_key \notin Cells
                     THEN Response("get", user, cell_key, key, 404)
                     ELSE IF "owner_id" \notin CellAttributes
                     THEN Response("get", user, cell_key, key, 500)
                     ELSE IF ~CanRead(Ownership(user, cell_key))
                     THEN Response("get", user, cell_key, key, 403)
                     ELSE Response("get", user, cell_key, key, 500)
       /\ UNCHANGED <<apiFrame, cell_store, query_cache>>

\* DELETE /cells/{cell_key}/data/{key}: the DELETE statement runs on
\* cells/<key>.db
delete_cell_data(user, cell_key, key) ==
    /\ lc_ops < MaxRequests
    /\ lc_ops' = lc_ops + 1
    /\ IF cell_key \notin Cells
       THEN /\ response' = Response("delete", user, cell_key, key, 404)
            /\ UNCHANGED cell_store
       ELSE IF ~CanWrite(Ownership(user, cell_key))
       THEN /\ response' = Response("delete", user, cell_key, key, 403)
            /\ UNCHANGED cell_store
       ELSE IF "data" \notin TablesOf("cells/<key>.db")
       THEN /\ response' = Response("delete", user, cell_key, key, 500)
            /\ UNCHANGED cell_store
       ELSE /\ cell_store' = [cell_store EXCEPT ![cell_key] = DictDel(@, key)]
            /\ response' =
                  [Response("delete", user, cell_key, key,
                            IF "find_related_keys" \in LiquidCacheAttributes
                            THEN 200 ELSE 500)
                      EXCEPT !.committed = TRUE]
    /\ UNCHANGED <<apiFrame, cache_layers, last_cleanup, query_patterns, last_queries,
                   query_cache>>

\* sgx_enclave.decrypt_data on the value column of a row.  The column holds
\* a text or NULL, never an envelope (CellDataItem.value is a str, and an
\* envelope cannot be bound by store_cell_data): on a text the test
\* `field in encrypted_data` is a substring test and the subscript
\* encrypted_data["data_id"] raises TypeError, on NULL the test itself
\* raises; both are caught by the except of decrypt_data, which returns None.
decrypt_column(initialized, value) ==
    [failed |-> TRUE, data |-> None, raised |-> FALSE]

\* the loop body of query_cell_data: the item of a row; QueryRequest has no
\* field search, so the plain decryption branch is taken
scan_item(initialized, row) ==
    IF ~initialized THEN row
    ELSE LET decrypted == decrypt_column(initialized, row.value)
         IN IF decrypted.raised
            THEN [key |-> row.key, value |-> row.value, created_at |-> row.created_at,
                  updated_at |-> row.updated_at, decryption_error |-> TRUE]
            ELSE IF ~decrypted.failed /\ "value" \in DOMAIN decrypted.data
            THEN [row EXCEPT !.value = decrypted.data.value]
            ELSE row

scan(initialized, rows) == [i \in 1..Len(rows) |-> scan_item(initialized, rows[i])]

\* POST /cells/{cell_key}/query.
query_cell_data(user, cell_key, query) ==
    LET cache_key == _generate_key("cell_query", cell_key, None, query, user)
        probe == LC_get(cache_layers, last_cleanup, cache_key, now)
        reg == register_query(query_patterns, last_queries, "cell_query", cell_key, now)
    IN /\ lc_ops < MaxRequests
       /\ lc_ops' = lc_ops + 1
       /\ IF probe.hit
          THEN /\ response' = [Response("query", user, cell_key, None, 200)
                                  EXCEPT !.results = probe.value, !.cached = TRUE]
               /\ cache_layers' = probe.layers
               /\ last_cleanup' = probe.last_cleanup
               /\ UNCHANGED <<query_patterns, last_queries, query_cache>>
          ELSE /\ query_patterns' = reg.query_patterns
               /\ last_queries' = reg.last_queries
               /\ IF cell_key \notin Cells \/ ~CanRead(Ownership(user, cell_key))
                  THEN /\ response' = Response("query", user, cell_key, None,
                                               IF cell_key \notin Cells THEN 404 ELSE 403)
                       /\ cache_layers' = probe.layers
                       /\ last_cleanup' = probe.last_cleanup
                       /\ UNCHANGED query_cache
                  ELSE \E r \in optimize_query(is_initialized, query_cache, query,
                                               scan(sgx_initialized,
                                                    cell_store[data_db(cell_key)])) :
                       /\ query_cache' = r.query_cache
                       /\ IF r.result.status = "error"
                          THEN /\ response' = Response("query", user, cell_key, None, 500)
                               /\ cache_layers' = probe.layers
                               /\ last_cleanup' = probe.last_cleanup
                          ELSE LET stored == LC_set(probe.layers, probe.last_cleanup,
                                                    cache_key, r.result.items, 0, FALSE, now)
                               IN /\ response' = [Response("query", user, cell_key, None, 200)
                                                     EXCEPT !.results = r.result.items]
                                  /\ cache_layers' = stored.layers
                                  /\ last_cleanup' = stored.last_cleanup
       /\ UNCHANGED <<apiFrame, cell_store>>

ApiNext ==
    \/ \E u \in Users, c \in CellKeys : get_cell_keys(u, c)
    \/ \E u \in Users, c \in CellKeys, k \in ItemKeys, v \in ItemValues :
          store_cell_data(u, c, k, v)
    \/ \E u \in Users, c \in CellKeys, k \in ItemKeys : get_cell_data(u, c, k)
    \/ \E u \in Users, c \in CellKeys, k \in ItemKeys : delete_cell_data(u, c, k)
    \/ \E u \in Users, c \in CellKeys, q \in ApiQueries : query_cell_data(u, c, q)

(***************************************************************************)
(* SGXEnclave in simulation mode (SGX_SIMULATION_MODE defaults to true;    *)
(* the hardware mode calls a native library that is no part of the         *)
(* sources).  The cryptographic primitives are symbolic:                   *)
(*   - a master key is a number; secrets.token_bytes and the random salt   *)
(*     of the rotation give values never drawn before (sg_fresh counts     *)
(*     them);                                                              *)
(*   - HMAC is the pair of its key and its message;                        *)
(*   - an AES-GCM ciphertext carries its key, nonce and plaintext, and     *)
(*     decrypts under that key and nonce only, and only when no byte of it *)
(*     was altered;                                                        *)
(*   - base64 and JSON encodings wrap their argument, decoding unwraps it  *)
(*     and raises on anything else.                                        *)
(***************************************************************************)
rotation_interval == 86400

simulation_mode == TRUE

\* a key derivation that leaves the message out
hmac_keyed_only(key, msg) == [hmac |-> "sha256", key |-> key, msg |-> ""]

\* hmac.new(key, msg, hashlib.sha256).digest()
hmac_sha256(key, msg) == [hmac |-> "sha256", key |-> key, msg |-> msg]

\* hmac.new(key, msg, hashlib.sha512).hexdigest()
hmac_sha512(key, msg) == [hmac |-> "sha512", key |-> key, msg |-> msg]

\* json.dumps(data).encode('utf-8') and json.loads(bytes.decode('utf-8'))
json_dumps(data) == [json |-> data]
json_loads(bytes) == bytes.json

b64encode(bytes) == [b64 |-> bytes]
b64decode(text) == text.b64
IsBase64(text) == DOMAIN text = {"b64"}

\* AESGCM(key).encrypt(nonce, data, None)
AESGCM_encrypt(key, nonce, data) ==
    [key |-> key, nonce |-> nonce, data |-> data, intact |-> TRUE]

\* AESGCM(key).decrypt(nonce, ciphertext, None) does not raise InvalidTag
AESGCM_authentic(key, nonce, ciphertext) ==
    ciphertext.intact /\ ciphertext.key = key /\ ciphertext.nonce = nonce

\* the enclave state the operations read and write
EnclaveState ==
    [master_key |-> master_key, master_key_file |-> master_key_file,
     key_cache |-> key_cache, last_rotation |-> last_rotation, sg_fresh |-> sg_fresh]

\* SGXEnclave._rotate_keys_if_needed
_rotate_keys_if_needed(st, t) ==
    IF t - st.last_rotation > rotation_interval
    THEN LET cleared == [st EXCEPT !.key_cache = <<>>, !.last_rotation = t]
         IN IF simulation_mode    \* and master_key, which initialize has set
            THEN \* pbkdf2_hmac of the old key with a random salt
                 [cleared EXCEPT !.master_key = st.sg_fresh + 1,
                                 !.master_key_file = st.sg_fresh + 1,
                                 !.sg_fresh = st.sg_fresh + 1]
            ELSE cleared
    ELSE st

\* SGXEnclave._derive_key_for_data: the state after the call and the key
_derive_key_for_data(st, data_id, t) ==
    LET rotated == _rotate_keys_if_needed(st, t)
    IN IF HasKey(rotated.key_cache, data_id)
       THEN [st |-> rotated, key |-> ItemOf(rotated.key_cache, data_id).value]
       ELSE LET key == hmac_sha256(rotated.master_key, data_id)
            IN [st |-> [rotated EXCEPT !.key_cache =
                            Append(@, [key |-> data_id, value |-> key])],
                key |-> key]

\* SGXEnclave.encrypt_data with a data_id given
encrypt_data(initialized, st, data, data_id, t) ==
    IF ~initialized THEN [st |-> st, failed |-> TRUE, envelope |-> None]
    ELSE LET data_bytes == json_dumps(data)
             derived == _derive_key_for_data(st, data_id, t)
             nonce == derived.st.sg_fresh + 1
             ciphertext == AESGCM_encrypt(derived.key, nonce, data_bytes)
         IN [st |-> [derived.st EXCEPT !.sg_fresh = nonce],
             failed |-> FALSE,
             envelope |-> [version |-> "1.0", algorithm |-> "AES-GCM-256",
                           data_id |-> data_id, nonce |-> b64encode(nonce),
                           ciphertext |-> b64encode(ciphertext)]]

\* a check that accepts every algorithm name
AlgorithmAny(algorithm) == TRUE

\* the algorithm check of decrypt_data
AlgorithmAccepted(algorithm) == algorithm = "AES-GCM-256"

\* the statements inside the try of decrypt_data: failed stands for the
\* return value None, raised for an exception leaving the statements
decrypt_try(st, encrypted_data, t) ==
    LET failure(state) == [st |-> state, failed |-> TRUE, data |-> None, raised |-> FALSE]
        exception(state) == [st |-> state, failed |-> TRUE, data |-> None, raised |-> TRUE]
    IN IF ~({"version", "algorithm", "data_id"} \subseteq DOMAIN encrypted_data)
       THEN failure(st)
       ELSE IF ~AlgorithmAccepted(encrypted_data.algorithm) THEN failure(st)
       ELSE IF "nonce" \notin DOMAIN encrypted_data \/ ~IsBase64(encrypted_data.nonce)
       THEN exception(st)    \* KeyError, binascii.Error
       ELSE IF "ciphertext" \notin DOMAIN encrypted_data
                \/ ~IsBase64(encrypted_data.ciphertext)
       THEN exception(st)
       ELSE LET nonce == b64decode(encrypted_data.nonce)
                ciphertext == b64decode(encrypted_data.ciphertext)
                derived == _derive_key_for_data(st, encrypted_data.data_id, t)
            IN IF AESGCM_authentic(derived.key, nonce, ciphertext)
               THEN [st |-> derived.st, failed |-> FALSE,
                     data |-> json_loads(ciphertext.data), raised |-> FALSE]
               ELSE failure(derived.st)    \* InvalidTag, caught by the inner try

\* SGXEnclave.decrypt_data: the outer except logs the exception and the
\* function returns None
decrypt_data(initialized, st, encrypted_data, t) ==
    IF ~initialized
    THEN [st |-> st, failed |-> TRUE, data |-> None, raised |-> FALSE]
    ELSE LET tried == decrypt_try(st, encrypted_data, t)
         IN IF tried.raised THEN [tried EXCEPT !.raised = FALSE] ELSE tried

\* SGXEnclave.secure_hash of a dict (json.dumps with sort_keys)
secure_hash(initialized, st, data) ==
    IF ~initialized THEN None
    ELSE hmac_sha512(st.master_key, json_dumps(data))

\* SGXEnclave.verify_data_integrity
verify_data_integrity(initialized, st, data, hash_value) ==
    IF ~initialized THEN FALSE
    ELSE secure_hash(initialized, st, data) = hash_value

(***************************************************************************)
(* SGXEnclave.secure_compute_on_encrypted.  A plaintext is a dict whose    *)
(* values are numbers or dicts {"x": number}: an entry is [key, kind, num] *)
(* with kind "number" (the value is num) or "dict" (the value is           *)
(* {"x": num}).  params is a function from the names given to their        *)
(* values.  A return value is None, {"error": reason} or a result dict.    *)
(***************************************************************************)
ReturnNone == [kind |-> "None", reason |-> "", value |-> <<>>]
ReturnError(reason) == [kind |-> "error", reason |-> reason, value |-> <<>>]
ReturnResult(value) == [kind |-> "result", reason |-> "", value |-> value]

\* params.get(name, default)
ParamGet(params, name, default) ==
    IF name \in params.given THEN params[name] ELSE default

RECURSIVE SumOf(_)
SumOf(values) == IF values = <<>> THEN 0 ELSE Head(values) + SumOf(Tail(values))

\* the 'search' branch: number values whose str() equals the query
SearchMatches(data, query) ==
    SelectSeq(data, LAMBDA e : e.kind = "number" /\ ToString(e.num) = query)

\* the values collected by the 'aggregate' branch, for the field "x"
AggregateValues(data, agg_field) ==
    LET having == SelectSeq(data, LAMBDA e : e.kind = "dict" /\ agg_field = "x")
    IN [i \in 1..Len(having) |-> having[i].num]

\* the comparison of the 'filter' branch
FilterIncludes(filter_op, field_value, filter_value) ==
    \/ filter_op = "eq" /\ field_value = filter_value
    \/ filter_op = "neq" /\ field_value # filter_value
    \/ filter_op = "gt" /\ field_value > filter_value
    \/ filter_op = "gte" /\ field_value >= filter_value
    \/ filter_op = "lt" /\ field_value < filter_value
    \/ filter_op = "lte" /\ field_value <= filter_value

\* the operations on the decrypted data
ComputeOnPlain(operation, data, params) ==
    IF operation = "search"
    THEN LET query == ParamGet(params, "query", "")
         IN IF query = "" THEN ReturnError("No search query provided")
            ELSE ReturnResult(SearchMatches(data, query))
    ELSE IF operation = "aggregate"
    THEN LET agg_field == ParamGet(params, "field", "")
             agg_op == ParamGet(params, "operation", "sum")
             values == AggregateValues(data, agg_field)
         IN IF agg_field = "" THEN ReturnError("No aggregation field provided")
            ELSE IF agg_op = "sum" THEN ReturnResult(<<SumOf(values)>>)
            ELSE IF agg_op = "count" THEN ReturnResult(<<Len(values)>>)
            ELSE IF agg_op \in {"avg", "max", "min"}
            THEN ReturnResult(<<agg_op, values>>)
            ELSE ReturnNone    \* result is still None
    ELSE IF operation = "filter"
    THEN LET filter_field == ParamGet(params, "field", "")
             filter_op == ParamGet(params, "operator", "eq")
         IN IF filter_field = "" \/ "value" \notin params.given
            THEN ReturnError("Incomplete filter parameters")
            ELSE ReturnResult(SelectSeq(data, LAMBDA e :
                    /\ e.kind = "dict" /\ filter_field = "x"
                    /\ FilterIncludes(filter_op, e.num, params.value)))
    ELSE ReturnError("Unsupported operation")

\* SGXEnclave.secure_compute_on_encrypted: the state after the call and
\* the return value
secure_compute_on_encrypted(initialized, st, operation, encrypted_data, params, t) ==
    IF ~initialized THEN [st |-> st, ret |-> ReturnNone]
    ELSE LET decrypted == decrypt_data(initialized, st, encrypted_data, t)
         IN IF decrypted.failed \/ decrypted.data = <<>>    \* not decrypted_data
            THEN [st |-> decrypted.st, ret |-> ReturnNone]
            ELSE [st |-> decrypted.st,
                  ret |-> ComputeOnPlain(operation, decrypted.data, params)]

(***************************************************************************)
(* The enclave as a state machine: calls of its public methods on an       *)
(* initialized enclave, and the passing of time between them.  sg_issued   *)
(* keeps the envelopes encrypt_data returned, sg_hashes the digests        *)
(* secure_hash returned; decrypt_data is called with an issued envelope,   *)
(* as returned or altered.                                                 *)
(***************************************************************************)
MaxIssued == 2
MaxHashes == 1
MaxElapses == 1

\* {} and {"a": 1, "b": {"x": 2}, "c": {"x": 3}}
Plaintexts ==
    { <<>>,
      <<[key |-> "a", kind |-> "number", num |-> 1], [key |-> "b", kind |-> "dict", num |-> 2],
        [key |-> "c", kind |-> "dict", num |-> 3]>> }
DataIds == {"d1", "d2"}
ElapseSteps == {rotation_interval, rotation_interval + 1}

RequiredFields == {"version", "algorithm", "data_id", "nonce", "ciphertext"}
Alterations == {"algorithm", "data_id", "ciphertext", "nonce"}
Intact == [kind |-> "intact", field |-> None]
Without(field) == [kind |-> "without", field |-> field]
Altered(field) == [kind |-> "altered", field |-> field]
Variants == {Intact} \cup {Without(f) : f \in RequiredFields}
                     \cup {Altered(f) : f \in Alterations}

\* an envelope as a caller may hand it back: intact, without one field, or
\* with one field altered
Variant(envelope, variant) ==
    IF variant.kind = "intact" THEN envelope
    ELSE IF variant.kind = "without"
    THEN [f \in DOMAIN envelope \ {variant.field} |-> envelope[f]]
    ELSE IF variant.field = "algorithm" THEN [envelope EXCEPT !.algorithm = "AES-CBC-256"]
    ELSE IF variant.field = "data_id"
    THEN [envelope EXCEPT !.data_id = CHOOSE d \in DataIds : d # @]
    ELSE IF variant.field = "ciphertext"
    THEN [envelope EXCEPT !.ciphertext =
              b64encode([b64decode(@) EXCEPT !.intact = FALSE])]
    ELSE [envelope EXCEPT !.nonce = b64encode(0)]

ComputeOperations == {"search", "aggregate", "filter", "sort"}
\* params: given holds the names the dict has
Params(given, query, field, operation, value, operator) ==
    [given |-> given, query |-> query, field |-> field, operation |-> operation,
     value |-> value, operator |-> operator]
NoParams == Params({}, "", "", "", 0, "")
ComputeParams ==
    { NoParams,
      Params({"query"}, "1", "", "", 0, ""),
      Params({"field"}, "", "x", "", 0, ""),
      Params({"field", "operation"}, "", "x", "max", 0, ""),
      Params({"field", "operation"}, "", "x", "median", 0, ""),
      Params({"field", "value"}, "", "x", "", 2, ""),
      Params({"field", "value", "operator"}, "", "x", "", 2, "gt") }

NoSgCall ==
    [op |-> "none", issued |-> 0, variant |-> Intact, data |-> <<>>, data_id |-> None,
     failed |-> FALSE, raised |-> FALSE, valid |-> FALSE, hash |-> 0,
     operation |-> None, params |-> NoParams, ret |-> ReturnNone, at |-> 0]

\* no create_cell request in progress
NoRequest == [pc |-> "idle", user_id |-> 0, cell_id |-> 0]

\* an empty catalog database
CatalogIdle ==
    /\ db_users = <<>>
    /\ db_cells = <<>>
    /\ db_ownerships = <<>>
    /\ cc_request = NoRequest

\* the components later parts of the model add, in their initial state
Emails == {"a@x", "b@x"}

NoLockCall == [op |-> "none", email |-> "none", outcome |-> "none"]
NotLocked == [is_locked |-> FALSE, locked_until |-> 0]

\* no login was attempted yet
LockIdle ==
    /\ audit_logs = <<>>
    /\ user_locks = [e \in Emails |-> NotLocked]
    /\ utcnow = 0
    /\ lock_call = NoLockCall
    /\ failed_logins = <<>>
    /\ last_success = [e \in Emails |-> -1]

Clients == {"r1", "r2"}

NoCallYet == [pc |-> "idle", op |-> "none", value |-> 0, floor |-> 0, status |-> 0,
              results |-> <<>>]

\* no request was issued yet
RequestsIdle ==
    /\ calls = [cl \in Clients |-> NoCallYet]
    /\ commits = <<>>
    /\ returned_upto = 0

Threads == {"t1", "t2"}

NoThread == [pc |-> "idle", pattern |-> <<"cell_query", "c1">>, predictions |-> <<>>,
             reg |-> 0, wpc |-> "none", wreg |-> 0, windex |-> 0]

NoStep == [stmt |-> "none", locked |-> TRUE]

\* LiquidCache.__init__: the counters are 0 and no thread has called yet
ThreadsIdle ==
    /\ stats = [hits |-> 0, misses |-> 0, predictions |-> 0, successful_predictions |-> 0]
    /\ threads = [t \in Threads |-> NoThread]
    /\ counted = [predictions |-> 0, successful_predictions |-> 0]
    /\ last_step = NoStep

NoDerivation == [pc |-> "idle", data_id |-> None, current_time |-> 0,
                 key |-> [hmac |-> "none", key |-> 0, msg |-> ""]]

\* no thread is inside _derive_key_for_data
DeriversIdle == derivers = [t \in Threads |-> NoDerivation]

Topics == {"cells", "audit"}
StartCalls == {"s1", "s2"}

NoHandlers == [topic \in Topics |-> [present |-> FALSE, list |-> <<>>]]

NoStart == [pc |-> "idle", topics |-> <<>>]

\* KafkaConsumer.__init__
ConsumerIdle ==
    /\ consumers = {}
    /\ handlers = NoHandlers
    /\ running = FALSE
    /\ starts = [s \in StartCalls |-> NoStart]
    /\ received = <<>>
    /\ subscribed = {}

ClientIps == {"ip1", "ip2"}

\* AdvancedSecurity.__init__: no address seen, none blocked
LimiterIdle ==
    /\ rate_limit_cache = [ip \in ClientIps |->
                              [present |-> FALSE, requests |-> 0, last_request |-> 0]]
    /\ blocked_ips = {}
    /\ unblock_tasks = {}
    /\ limiter_log = <<>>

NoHexCall == [op |-> "none", cell |-> <<0, 0>>, depth |-> 0, neighbors |-> <<>>]

\* no cell on the grid, no query made
HexIdle ==
    /\ hex_cells = {}
    /\ hex_call = NoHexCall

\* the components that run under specifications of their own
MoreIdle == ThreadsIdle /\ DeriversIdle /\ ConsumerIdle /\ LimiterIdle /\ HexIdle

ExtIdle == CatalogIdle /\ LockIdle /\ RequestsIdle /\ MoreIdle

\* nothing published yet
NoPublication == [events |-> <<>>, last |-> "none"]

SgxIdle ==
    /\ master_key = 0
    /\ master_key_file = 0
    /\ key_cache = <<>>
    /\ last_rotation = 0
    /\ sg_fresh = 0
    /\ sg_call = NoSgCall
    /\ sg_issued = <<>>
    /\ sg_hashes = <<>>
    /\ kafka_is_ready = FALSE
    /\ published = NoPublication

\* SGXEnclave.initialize in simulation mode: the master key is read from
\* master.key or generated and written there
EnclaveInit ==
    /\ sgx_initialized = TRUE
    /\ master_key = 1
    /\ master_key_file = 1
    /\ key_cache = <<>>
    /\ last_rotation = 0
    /\ sg_fresh = 1
    /\ sg_call = NoSgCall
    /\ sg_issued = <<>>
    /\ sg_hashes = <<>>

SetEnclave(st) ==
    /\ master_key' = st.master_key
    /\ master_key_file' = st.master_key_file
    /\ key_cache' = st.key_cache
    /\ last_rotation' = st.last_rotation
    /\ sg_fresh' = st.sg_fresh

sgxFrame == <<num_layers, cache_layers, last_cleanup, lc_ops, lc_call, lc_written,
              query_patterns, last_queries, queryVars, apiVars, busVars, extVars>>

SgxEncrypt(data, data_id) ==
    /\ Len(sg_issued) < MaxIssued
    /\ LET res == encrypt_data(sgx_initialized, EnclaveState, data, data_id, now)
       IN /\ SetEnclave(res.st)
          /\ sg_issued' = Append(sg_issued, [envelope |-> res.envelope, data |-> data,
                                             data_id |-> data_id])
          /\ sg_call' = [NoSgCall EXCEPT !.op = "encrypt", !.data = data,
                                         !.data_id = data_id, !.failed = res.failed,
                                         !.issued = Len(sg_issued) + 1, !.at = now]
    /\ UNCHANGED <<now, sg_hashes, sgxFrame>>

SgxDecrypt(i, variant) ==
    /\ i \in 1..Len(sg_issued)
    /\ LET res == decrypt_data(sgx_initialized, EnclaveState,
                               Variant(sg_issued[i].envelope, variant), now)
       IN /\ SetEnclave(res.st)
          /\ sg_call' = [NoSgCall EXCEPT !.op = "decrypt", !.issued = i,
                                         !.variant = variant, !.failed = res.failed,
                                         !.raised = res.raised,
                                         !.data = IF res.failed THEN <<>> ELSE res.data,
                                         !.at = now]
    /\ UNCHANGED <<now, sg_issued, sg_hashes, sgxFrame>>

SgxDeriveKey(data_id) ==
    /\ SetEnclave(_derive_key_for_data(EnclaveState, data_id, now).st)
    /\ sg_call' = [NoSgCall EXCEPT !.op = "derive", !.data_id = data_id, !.at = now]
    /\ UNCHANGED <<now, sg_issued, sg_hashes, sgxFrame>>

SgxHash(data) ==
    /\ Len(sg_hashes) < MaxHashes
    /\ sg_hashes' = Append(sg_hashes,
                           [data |-> data,
                            digest |-> secure_hash(sgx_initialized, EnclaveState, data)])
    /\ sg_call' = [NoSgCall EXCEPT !.op = "hash", !.data = data, !.at = now]
    /\ UNCHANGED <<now, master_key, master_key_file, key_cache, last_rotation, sg_fresh,
                   sg_issued, sgxFrame>>

SgxVerify(data, j) ==
    /\ j \in 1..Len(sg_hashes)
    /\ sg_call' = [NoSgCall EXCEPT
                     !.op = "verify", !.data = data, !.hash = j, !.at = now,
                     !.valid = verify_data_integrity(sgx_initialized, EnclaveState, data,
                                                     sg_hashes[j].digest)]
    /\ UNCHANGED <<now, master_key, master_key_file, key_cache, last_rotation, sg_fresh,
                   sg_issued, sg_hashes, sgxFrame>>

SgxCompute(operation, i, params) ==
    /\ i \in 1..Len(sg_issued)
    /\ LET res == secure_compute_on_encrypted(sgx_initialized, EnclaveState, operation,
                                              sg_issued[i].envelope, params, now)
       IN /\ SetEnclave(res.st)
          /\ sg_call' = [NoSgCall EXCEPT !.op = "compute", !.issued = i,
                                         !.failed = decrypt_data(sgx_initialized,
                                             EnclaveState, sg_issued[i].envelope,
                                             now).failed,
                                         !.operation = operation, !.params = params,
                                         !.ret = res.ret, !.at = now]
    /\ UNCHANGED <<now, sg_issued, sg_hashes, sgxFrame>>

\* time passes between two calls
Elapse(d) ==
    /\ now + d <= MaxElapses * (rotation_interval + 1)
    /\ now' = now + d
    /\ UNCHANGED <<sgxVars, sgxFrame>>

CryptoNext ==
    \/ \E data \in Plaintexts, data_id \in DataIds : SgxEncrypt(data, data_id)
    \/ \E i \in 1..MaxIssued, variant \in Variants : SgxDecrypt(i, variant)
    \/ \E data_id \in DataIds : SgxDeriveKey(data_id)
    \/ \E data \in Plaintexts : SgxHash(data)
    \/ \E data \in Plaintexts, j \in 1..MaxHashes : SgxVerify(data, j)
    \/ \E d \in ElapseSteps : Elapse(d)

ComputeNext ==
    \/ \E data \in Plaintexts, data_id \in DataIds : SgxEncrypt(data, data_id)
    \/ \E operation \in ComputeOperations, i \in 1..MaxIssued, params \in ComputeParams :
          SgxCompute(operation, i, params)
    \/ \E d \in ElapseSteps : Elapse(d)

(***************************************************************************)
(* KafkaProducer and the handlers that publish after their work is done:   *)
(* POST /cells and the /api/secure endpoints.  A publication ends "sent"   *)
(* (send_message returned True), "false" (it returned False: producer not  *)
(* ready, or send_and_wait raised) or "raised" (the call itself raised).   *)
(***************************************************************************)
KafkaProducerAttributes ==
    {"producer", "is_ready", "start", "stop", "send_message", "send_cell_event",
     "send_user_event", "send_audit_event"}

\* KafkaProducer.send_message
send_message(pub, is_ready, broker_ok, event) ==
    IF ~is_ready THEN [pub EXCEPT !.last = "false"]
    ELSE IF ~broker_ok THEN [pub EXCEPT !.last = "false"]
    ELSE [events |-> Append(pub.events, event), last |-> "sent"]

\* await kafka_producer.<method>(...): a method the class lacks raises
\* AttributeError
Publish(pub, method, is_ready, broker_ok, event) ==
    IF method \notin KafkaProducerAttributes THEN [pub EXCEPT !.last = "raised"]
    ELSE send_message(pub, is_ready, broker_ok, event)

secureFrame == <<num_layers, cache_layers, last_cleanup, now, lc_call, lc_written,
                 query_patterns, last_queries, queryVars, sgx_initialized, cell_store,
                 kafka_is_ready, extVars>>

\* POST /cells: the cell and its ownership row are committed, then the
\* two events are published
create_cell(user, broker_ok) ==
    /\ lc_ops < MaxRequests
    /\ lc_ops' = lc_ops + 1
    /\ created_cells' = created_cells + 1
    /\ LET cell_event == Publish(published, "send_cell_event", kafka_is_ready, broker_ok,
                                 [topic |-> "cells", by |-> user])
           audit_event == Publish(cell_event, "send_audit_event", kafka_is_ready,
                                  broker_ok, [topic |-> "audit", by |-> user])
       IN /\ published' = audit_event
          /\ response' = Response("create_cell", user, None, None,
                                  IF audit_event.last = "raised" THEN 500 ELSE 200)
    /\ UNCHANGED <<secureFrame, sgxVars>>

\* the status of POST /api/secure/encrypt: HTTPException is an Exception,
\* so the except clause turns whatever the try raised into 500
secure_encrypt_status(initialized, failed, publication) ==
    IF ~initialized THEN 503
    ELSE IF failed THEN 500
    ELSE IF publication = "raised" THEN 500
    ELSE 200

\* the status of POST /api/secure/decrypt
secure_decrypt_status(initialized, failed, publication) ==
    IF ~initialized THEN 503
    ELSE IF failed THEN 500      \* the 400 raised in the try is caught and becomes 500
    ELSE IF publication = "raised" THEN 500
    ELSE 200

\* the status of POST /api/secure/compute; failed: the result is None or
\* empty
secure_compute_status(initialized, operation, failed, publication) ==
    IF ~initialized THEN 503
    ELSE IF operation \notin {"search", "aggregate", "filter"} THEN 400
    ELSE IF failed THEN 500
    ELSE IF publication = "raised" THEN 500
    ELSE 200

\* POST /api/secure/encrypt with a data_id given
secure_encrypt_data(user, data, data_id, broker_ok) ==
    /\ lc_ops < MaxRequests
    /\ lc_ops' = lc_ops + 1
    /\ IF ~sgx_initialized
       THEN /\ response' = Response("secure_encrypt", user, None, None,
                                    secure_encrypt_status(FALSE, FALSE, "none"))
            /\ UNCHANGED <<sgxVars, published>>
       ELSE LET res == encrypt_data(sgx_initialized, EnclaveState, data, data_id, now)
                pub == IF res.failed THEN published
                       ELSE Publish(published, "send_event", kafka_is_ready, broker_ok,
                                    [topic |-> "secure_operations", by |-> user])
            IN /\ SetEnclave(res.st)
               /\ sg_issued' = Append(sg_issued, [envelope |-> res.envelope,
                                                  data |-> data, data_id |-> data_id])
               /\ sg_call' = [NoSgCall EXCEPT !.op = "encrypt", !.data = data,
                                              !.data_id = data_id, !.failed = res.failed,
                                              !.issued = Len(sg_issued) + 1]
               /\ published' = pub
               /\ response' = Response("secure_encrypt", user, None, None,
                                       secure_encrypt_status(TRUE, res.failed, pub.last))
               /\ UNCHANGED sg_hashes
    /\ UNCHANGED <<secureFrame, created_cells>>

\* POST /api/secure/decrypt with an envelope the service issued, as issued
\* or altered
secure_decrypt_data(user, i, variant, broker_ok) ==
    /\ lc_ops < MaxRequests
    /\ lc_ops' = lc_ops + 1
    /\ i \in 1..Len(sg_issued)
    /\ IF ~sgx_initialized
       THEN /\ response' = Response("secure_decrypt", user, None, None,
                                    secure_decrypt_status(FALSE, FALSE, "none"))
            /\ UNCHANGED <<sgxVars, published>>
       ELSE LET res == decrypt_data(sgx_initialized, EnclaveState,
                                    Variant(sg_issued[i].envelope, variant), now)
                failed == res.failed \/ res.data = <<>>    \* not decrypted_data
                pub == IF failed THEN published
                       ELSE Publish(published, "send_event", kafka_is_ready, broker_ok,
                                    [topic |-> "secure_operations", by |-> user])
            IN /\ SetEnclave(res.st)
               /\ sg_call' = [NoSgCall EXCEPT !.op = "decrypt", !.issued = i,
                                              !.variant = variant, !.failed = failed]
               /\ published' = pub
               /\ response' = Response("secure_decrypt", user, None, None,
                                       secure_decrypt_status(TRUE, failed, pub.last))
               /\ UNCHANGED <<sg_issued, sg_hashes>>
    /\ UNCHANGED <<secureFrame, created_cells>>

\* POST /api/secure/compute on an envelope the service issued
secure_compute(user, operation, i, params, broker_ok) ==
    /\ lc_ops < MaxRequests
    /\ lc_ops' = lc_ops + 1
    /\ i \in 1..Len(sg_issued)
    /\ IF ~sgx_initialized \/ operation \notin {"search", "aggregate", "filter"}
       THEN /\ response' = Response("secure_compute", user, None, None,
                                    secure_compute_status(sgx_initialized, operation,
                                                          FALSE, "none"))
            /\ sg_call' = [NoSgCall EXCEPT !.op = "compute", !.operation = operation]
            /\ UNCHANGED <<master_key, master_key_file, key_cache, last_rotation,
                           sg_fresh, sg_issued, sg_hashes, published>>
       ELSE LET res == secure_compute_on_encrypted(sgx_initialized, EnclaveState,
                                                   operation, sg_issued[i].envelope,
                                                   params, now)
                failed == res.ret.kind = "None"    \* not result
                pub == IF failed THEN published
                       ELSE Publish(published, "send_event", kafka_is_ready, broker_ok,
                                    [topic |-> "secure_operations", by |-> user])
            IN /\ SetEnclave(res.st)
               /\ sg_call' = [NoSgCall EXCEPT !.op = "compute", !.issued = i,
                                              !.operation = operation,
                                              !.params = params, !.ret = res.ret,
                                              !.failed = failed]
               /\ published' = pub
               /\ response' = Response("secure_compute", user, None, None,
                                       secure_compute_status(TRUE, operation, failed,
                                                             pub.last))
               /\ UNCHANGED <<sg_issued, sg_hashes>>
    /\ UNCHANGED <<secureFrame, created_cells>>

SecureNext ==
    \/ \E user \in Users, broker_ok \in BOOLEAN : create_cell(user, broker_ok)
    \/ \E user \in Users, data \in Plaintexts, data_id \in DataIds, broker_ok \in BOOLEAN :
          secure_encrypt_data(user, data, data_id, broker_ok)
    \/ \E user \in Users, i \in 1..MaxRequests, broker_ok \in BOOLEAN,
          variant \in {Intact, Altered("ciphertext")} :
          secure_decrypt_data(user, i, variant, broker_ok)
    \/ \E user \in Users, operation \in ComputeOperations, i \in 1..MaxRequests,
          params \in ComputeParams, broker_ok \in BOOLEAN :
          secure_compute(user, operation, i, params, broker_ok)

(***************************************************************************)
(* The catalog database: register_user and create_cell of main.py over the *)
(* tables users, cells and cell_ownerships.  A handler runs on the event   *)
(* loop without interruption up to its first await; each db.commit() is a  *)
(* transaction of its own, so the database is in a committed state after   *)
(* each, and a commit can fail.  create_cell is therefore followed commit  *)
(* by commit.                                                              *)
(***************************************************************************)
Usernames == {"ann", "bob"}

\* a lookup that finds no user
EmailNeverTaken(users, email) == FALSE

\* db.query(User).filter(User.email == email).first()
EmailTaken(users, email) == \E i \in 1..Len(users) : users[i].email = email

\* the unique indexes of the table users
UniqueViolation(users, email, username) ==
    \E i \in 1..Len(users) : users[i].email = email \/ users[i].username = username

catalogFrame == <<cacheVars, queryVars, sgx_initialized, cell_store, created_cells,
                  sgxVars, kafka_is_ready, lockVars, reqVars, moreVars>>

\* POST /auth/register
register_user(email, username, broker_ok) ==
    /\ cc_request.pc = "idle"
    /\ Len(db_users) < MaxRequests
    /\ IF EmailTaken(db_users, email)
       THEN /\ response' = Response("register", email, None, None, 400)
            /\ UNCHANGED <<db_users, published>>
       ELSE IF UniqueViolation(db_users, email, username)
       THEN \* IntegrityError at db.commit()
            /\ response' = Response("register", email, None, None, 500)
            /\ UNCHANGED <<db_users, published>>
       ELSE LET id == Len(db_users) + 1
                user_event == Publish(published, "send_user_event", kafka_is_ready,
                                      broker_ok, [topic |-> "users", by |-> id])
            IN /\ db_users' = Append(db_users, [id |-> id, email |-> email,
                                               username |-> username])
               /\ published' = Publish(user_event, "send_audit_event", kafka_is_ready,
                                       broker_ok, [topic |-> "audit", by |-> id])
               /\ response' = Response("register", email, None, None, 200)
    /\ UNCHANGED <<catalogFrame, db_cells, db_ownerships, cc_request>>

\* create_cell up to the first commit: the cell row
CreateCellInsert(user_id) ==
    /\ cc_request.pc = "idle"
    /\ user_id \in 1..Len(db_users)
    /\ Len(db_cells) < MaxRequests
    /\ db_cells' = Append(db_cells, [id |-> Len(db_cells) + 1, key |-> Len(db_cells) + 1])
    /\ cc_request' = [pc |-> "cell", user_id |-> user_id, cell_id |-> Len(db_cells) + 1]
    /\ UNCHANGED <<catalogFrame, db_users, db_ownerships, response, published>>

\* the second commit: the ownership row
CreateCellOwnership ==
    /\ cc_request.pc = "cell"
    /\ db_ownerships' = Append(db_ownerships,
                               [id |-> Len(db_ownerships) + 1,
                                user_id |-> cc_request.user_id,
                                cell_id |-> cc_request.cell_id,
                                permission_level |-> "owner"])
    /\ cc_request' = [cc_request EXCEPT !.pc = "owned"]
    /\ UNCHANGED <<catalogFrame, db_users, db_cells, response, published>>

\* the second commit fails, or the process stops before it: the request
\* ends with an error
CreateCellFail ==
    /\ cc_request.pc = "cell"
    /\ cc_request' = NoRequest
    /\ response' = Response("create_cell", db_users[cc_request.user_id].email, None, None, 500)
    /\ UNCHANGED <<catalogFrame, db_users, db_cells, db_ownerships, published>>

\* the cell directory and its data.db, the two events and the response
CreateCellFinish(broker_ok) ==
    /\ cc_request.pc = "owned"
    /\ cc_request' = NoRequest
    /\ LET cell_event == Publish(published, "send_cell_event", kafka_is_ready, broker_ok,
                                 [topic |-> "cells", by |-> cc_request.user_id])
       IN published' = Publish(cell_event, "send_audit_event", kafka_is_ready, broker_ok,
                               [topic |-> "audit", by |-> cc_request.user_id])
    /\ response' = Response("create_cell", db_users[cc_request.user_id].email, None, None, 200)
    /\ UNCHANGED <<catalogFrame, db_users, db_cells, db_ownerships>>

CatalogNext ==
    \/ \E email \in Emails, username \in Usernames, broker_ok \in BOOLEAN :
          register_user(email, username, broker_ok)
    \/ \E user_id \in 1..MaxRequests : CreateCellInsert(user_id)
    \/ CreateCellOwnership
    \/ CreateCellFail
    \/ \E broker_ok \in BOOLEAN : CreateCellFinish(broker_ok)

(***************************************************************************)
(* Account lockout: log_auth_failure and check_account_lockout of          *)
(* AdvancedSecurity over the models of services/database/models.py, and    *)
(* the login handler of main.py.  Time is counted in minutes.              *)
(***************************************************************************)
max_login_attempts == 5
lockout_duration_minutes == 30
MinutesStep == 15
MaxMinutes == 45
MaxFailures == 5
MaxLogins == 1

\* the columns of the models the lockout code is written against
AuditLogColumns == {"id", "user_id", "action", "resource_type", "resource_id",
                    "details", "ip_address", "created_at"}
UserColumns == {"id", "username", "email", "hashed_password", "full_name",
                "is_active", "is_admin", "created_at", "updated_at"}

\* AuditLog(user_id=None, action_type=..., action=..., resource_type=...,
\*          resource_id=None, ip_address=ip, timestamp=...): the declarative
\* constructor accepts column names only
AuditLogAccepted ==
    {"user_id", "action_type", "action", "resource_type", "resource_id",
     "ip_address", "timestamp"} \subseteq AuditLogColumns

\* the rows counted at lines 377-382; no email of the model contains another,
\* so LIKE '%email%' selects the rows written for that email
failed_attempts(logs, email, at) ==
    Cardinality({i \in 1..Len(logs) :
                    /\ logs[i].action_type = "auth_failure"
                    /\ logs[i].email = email
                    /\ logs[i].timestamp >= at - lockout_duration_minutes})

Registered(email) == \E i \in 1..Len(db_users) : db_users[i].email = email

lockFrame == <<cacheVars, queryVars, apiVars, sgxVars, busVars, catalogVars, reqVars,
              moreVars>>

\* AdvancedSecurity.log_auth_failure(db, email, ip)
log_auth_failure(email) ==
    /\ Len(failed_logins) < MaxFailures
    /\ failed_logins' = Append(failed_logins, [email |-> email, at |-> utcnow])
    /\ IF ~AuditLogAccepted
       THEN \* TypeError: 'action_type' is an invalid keyword argument for AuditLog
            /\ lock_call' = [op |-> "log_auth_failure", email |-> email,
                             outcome |-> "TypeError"]
            /\ UNCHANGED <<audit_logs, user_locks>>
       ELSE LET logged == Append(audit_logs, [action_type |-> "auth_failure",
                                              email |-> email, timestamp |-> utcnow])
                reached == failed_attempts(logged, email, utcnow) >= max_login_attempts
            IN /\ audit_logs' =
                     IF reached
                     THEN Append(logged, [action_type |-> "suspicious_activity",
                                          email |-> email, timestamp |-> utcnow])
                     ELSE logged
               /\ user_locks' =
                     IF reached /\ Registered(email)
                        /\ {"is_locked", "locked_until"} \subseteq UserColumns
                     THEN [user_locks EXCEPT ![email] =
                              [is_locked |-> TRUE,
                               locked_until |-> utcnow + lockout_duration_minutes]]
                     ELSE user_locks
               /\ lock_call' = [op |-> "log_auth_failure", email |-> email,
                                outcome |-> "None"]
    /\ UNCHANGED <<lockFrame, utcnow, last_success>>

\* AdvancedSecurity.check_account_lockout(db, email)
check_account_lockout(email) ==
    /\ IF ~Registered(email)
       THEN /\ lock_call' = [op |-> "check_account_lockout", email |-> email,
                             outcome |-> "False"]
            /\ UNCHANGED user_locks
       ELSE IF "is_locked" \notin UserColumns
       THEN \* AttributeError: 'User' object has no attribute 'is_locked'
            /\ lock_call' = [op |-> "check_account_lockout", email |-> email,
                             outcome |-> "AttributeError"]
            /\ UNCHANGED user_locks
       ELSE IF user_locks[email].is_locked /\ user_locks[email].locked_until > utcnow
       THEN /\ lock_call' = [op |-> "check_account_lockout", email |-> email,
                             outcome |-> "True"]
            /\ UNCHANGED user_locks
       ELSE /\ lock_call' = [op |-> "check_account_lockout", email |-> email,
                             outcome |-> "False"]
            /\ user_locks' = IF user_locks[email].is_locked
                             THEN [user_locks EXCEPT ![email] = NotLocked]
                             ELSE user_locks
    /\ UNCHANGED <<lockFrame, audit_logs, utcnow, failed_logins, last_success>>

\* POST /auth/login; authenticate_user returns the user of a registered
\* email presented with its password
login_for_access_token(email, password_ok, broker_ok) ==
    /\ Len(published.events) < MaxLogins
    /\ IF Registered(email) /\ password_ok
       THEN /\ last_success' = [last_success EXCEPT ![email] = Len(failed_logins)]
            /\ published' = Publish(published, "send_audit_event", kafka_is_ready,
                                    broker_ok, [topic |-> "audit", by |-> 0])
            /\ response' = Response("login", email, None, None, 200)
       ELSE /\ response' = Response("login", email, None, None, 401)
            /\ UNCHANGED <<last_success, published>>
    /\ UNCHANGED <<cacheVars, queryVars, sgx_initialized, cell_store, created_cells,
                   sgxVars, kafka_is_ready, catalogVars, reqVars, moreVars, audit_logs,
                   user_locks, utcnow, lock_call, failed_logins>>

\* time passes
Minutes ==
    /\ utcnow + MinutesStep <= MaxMinutes
    /\ utcnow' = utcnow + MinutesStep
    /\ UNCHANGED <<lockFrame, audit_logs, user_locks, lock_call, failed_logins,
                   last_success>>

LockoutNext ==
    \/ \E email \in Emails : log_auth_failure(email)
    \/ \E email \in Emails : check_account_lockout(email)
    \/ \E email \in Emails, password_ok \in BOOLEAN, broker_ok \in BOOLEAN :
          login_for_access_token(email, password_ok, broker_ok)
    \/ Minutes

(***************************************************************************)
(* Query scans over stored cells: the cell store holds the rows of earlier *)
(* puts and only POST /cells/{cell_key}/query is called.  The values are   *)
(* the JSON texts of three objects, plain texts, or NULL (what a put with  *)
(* the enclave on stores when encrypt_data returns None).                  *)
(***************************************************************************)
ValueN == "{count: 3, active: true}"
ValueM == "{count: 7, active: true}"
ValueO == "{count: 5, active: false}"

\* json.loads of a stored text
json_loads_value(text) ==
    CASE text = ValueN -> [count |-> 3, active |-> TRUE]
      [] text = ValueM -> [count |-> 7, active |-> TRUE]
      [] text = ValueO -> [count |-> 5, active |-> FALSE]
      [] OTHER -> [scalar |-> text]

StoredRow(key, value) == [key |-> key, value |-> value, created_at |-> 0, updated_at |-> 0]

ObjectRows == <<StoredRow("n", ValueN), StoredRow("m", ValueM), StoredRow("o", ValueO)>>
TextRows == <<StoredRow("k1", "v1"), StoredRow("k2", None)>>

ScanStores == {[c \in Cells |-> IF c = "c1" THEN ObjectRows ELSE <<>>],
               [c \in Cells |-> IF c = "c1" THEN TextRows ELSE ObjectRows]}

\* {filter: {active: true}, sort: ["-count"], limit: 1}
TopActiveQuery ==
    [has_filter |-> TRUE, filter |-> <<[field |-> "active", op |-> "scalar", value |-> TRUE]>>,
     has_sort |-> TRUE, sort |-> <<[desc |-> TRUE, field |-> "count"]>>,
     has_limit |-> TRUE, limit |-> 1]

\* {filter: {active: true}}
ActiveQuery ==
    [has_filter |-> TRUE, filter |-> <<[field |-> "active", op |-> "scalar", value |-> TRUE]>>,
     has_sort |-> FALSE, sort |-> <<>>, has_limit |-> FALSE, limit |-> 0]

ScanQueries == {NoQuery, TopActiveQuery, ActiveQuery}

ScanNext == \E u \in Users, c \in CellKeys, q \in ScanQueries : query_cell_data(u, c, q)

(***************************************************************************)
(* Requests in flight.  uvicorn.run("main:app") serves the handlers of     *)
(* main.py on one event loop: the body of an async handler runs without    *)
(* interruption up to its first await that suspends.  store_cell_data has  *)
(* none before its Kafka calls and query_cell_data none before             *)
(* optimize_query, which does not suspend; so a request is three steps:    *)
(* the client sends it, the handler runs, the client receives the          *)
(* response.  Requests of several clients overlap between these steps.     *)
(* All requests are by u1 on the item k1 of its cell c1 (enclave off,      *)
(* producer started); a put writes a value no other put writes, the        *)
(* number of the put.                                                      *)
(***************************************************************************)
MaxCalls == 4

PositionIn(seq, value) ==
    IF \E i \in 1..Len(seq) : seq[i] = value
    THEN CHOOSE i \in 1..Len(seq) : seq[i] = value
    ELSE 0

requestFrame == <<num_layers, now, lc_call, lc_written, sgx_initialized, created_cells,
                  response, is_initialized, qo_query, qo_data, qo_result, qo_pc,
                  sgxVars, kafka_is_ready, catalogVars, lockVars, moreVars>>

\* a client sends POST /cells/c1/data {key: k1, value: <number of the put>}
CallPut(cl) ==
    /\ calls[cl].pc = "idle"
    /\ lc_ops < MaxCalls
    /\ lc_ops' = lc_ops + 1
    /\ calls' = [calls EXCEPT ![cl] = [NoCallYet EXCEPT !.pc = "called", !.op = "put",
                                                        !.value = lc_ops + 1]]
    /\ UNCHANGED <<requestFrame, cell_store, cache_layers, last_cleanup, query_patterns,
                   last_queries, query_cache, published, commits, returned_upto>>

\* a client sends POST /cells/c1/query {}; floor: the puts that have
\* returned by now
CallQuery(cl) ==
    /\ calls[cl].pc = "idle"
    /\ lc_ops < MaxCalls
    /\ lc_ops' = lc_ops + 1
    /\ calls' = [calls EXCEPT ![cl] = [NoCallYet EXCEPT !.pc = "called", !.op = "query",
                                                        !.floor = returned_upto]]
    /\ UNCHANGED <<requestFrame, cell_store, cache_layers, last_cleanup, query_patterns,
                   last_queries, query_cache, published, commits, returned_upto>>

\* store_cell_data runs: SELECT, INSERT or UPDATE, commit; then the cache
\* invalidation, the two events and the response
RunPut(cl) ==
    /\ calls[cl].pc = "called"
    /\ calls[cl].op = "put"
    /\ cell_store' = [cell_store EXCEPT ![data_db("c1")] = Upsert(@, "k1", calls[cl].value, now)]
    /\ commits' = Append(commits, calls[cl].value)
    /\ IF "find_related_keys" \notin LiquidCacheAttributes
       THEN \* AttributeError after the commit
            /\ calls' = [calls EXCEPT ![cl].pc = "ran", ![cl].status = 500]
            /\ UNCHANGED <<cache_layers, published>>
       ELSE LET cell_event == Publish(published, "send_cell_event", kafka_is_ready, TRUE,
                                      [topic |-> "cells", by |-> "u1", key |-> "k1",
                                       write |-> calls[cl].value])
            IN /\ cache_layers' = LC_clear(cache_layers)
               /\ published' = Publish(cell_event, "send_audit_event", kafka_is_ready, TRUE,
                                       [topic |-> "audit", by |-> "u1", key |-> "k1",
                                        write |-> calls[cl].value])
               /\ calls' = [calls EXCEPT ![cl].pc = "ran", ![cl].status = 200]
    /\ UNCHANGED <<requestFrame, lc_ops, last_cleanup, query_patterns, last_queries,
                   query_cache, returned_upto>>

\* query_cell_data runs
RunQuery(cl) ==
    LET cache_key == _generate_key("cell_query", "c1", None, NoQuery, "u1")
        probe == LC_get(cache_layers, last_cleanup, cache_key, now)
        reg == register_query(query_patterns, last_queries, "cell_query", "c1", now)
    IN /\ calls[cl].pc = "called"
       /\ calls[cl].op = "query"
       /\ IF probe.hit
          THEN /\ calls' = [calls EXCEPT ![cl].pc = "ran", ![cl].status = 200,
                                          ![cl].results = probe.value]
               /\ cache_layers' = probe.layers
               /\ last_cleanup' = probe.last_cleanup
               /\ UNCHANGED <<query_patterns, last_queries, query_cache>>
          ELSE /\ query_patterns' = reg.query_patterns
               /\ last_queries' = reg.last_queries
               /\ \E r \in optimize_query(is_initialized, query_cache, NoQuery,
                                          scan(sgx_initialized, cell_store[data_db("c1")])) :
                     /\ query_cache' = r.query_cache
                     /\ IF r.result.status = "error"
                        THEN /\ calls' = [calls EXCEPT ![cl].pc = "ran", ![cl].status = 500]
                             /\ cache_layers' = probe.layers
                             /\ last_cleanup' = probe.last_cleanup
                        ELSE LET stored == LC_set(probe.layers, probe.last_cleanup,
                                                  cache_key, r.result.items, 0, FALSE, now)
                             IN /\ calls' = [calls EXCEPT ![cl].pc = "ran",
                                                          ![cl].status = 200,
                                                          ![cl].results = r.result.items]
                                /\ cache_layers' = stored.layers
                                /\ last_cleanup' = stored.last_cleanup
       /\ UNCHANGED <<requestFrame, lc_ops, cell_store, published, commits, returned_upto>>

\* the client receives the response
Return(cl) ==
    /\ calls[cl].pc = "ran"
    /\ calls' = [calls EXCEPT ![cl].pc = "idle"]
    /\ returned_upto' =
          IF calls[cl].op = "put" /\ PositionIn(commits, calls[cl].value) > returned_upto
          THEN PositionIn(commits, calls[cl].value)
          ELSE returned_upto
    /\ UNCHANGED <<requestFrame, lc_ops, cell_store, cache_layers, last_cleanup,
                   query_patterns, last_queries, query_cache, published, commits>>

RequestsNext ==
    \/ \E cl \in Clients : CallPut(cl)
    \/ \E cl \in Clients : CallQuery(cl)
    \/ \E cl \in Clients : RunPut(cl)
    \/ \E cl \in Clients : RunQuery(cl)
    \/ \E cl \in Clients : Return(cl)

(***************************************************************************)
(* Puts and deletes over time: the handlers of main.py with the clock      *)
(* (datetime.utcnow) advancing between requests.                           *)
(***************************************************************************)
MaxLater == 2

\* time passes between two requests
Later ==
    /\ now < MaxLater
    /\ now' = now + 1
    /\ UNCHANGED <<num_layers, cache_layers, last_cleanup, lc_ops, lc_call, lc_written,
                   query_patterns, last_queries>>
    /\ UNCHANGED <<queryVars, apiVars, sgxVars, busVars, extVars>>

ItemsNext ==
    \/ \E u \in Users, c \in CellKeys, k \in ItemKeys, v \in ItemValues :
          store_cell_data(u, c, k, v)
    \/ \E u \in Users, c \in CellKeys, k \in ItemKeys : delete_cell_data(u, c, k)
    \/ Later

(***************************************************************************)
(* Specifications.  Each one runs one component and holds the others in    *)
(* their state after construction.                                         *)
(***************************************************************************)
CacheIdle ==
    /\ num_layers = MaxLayers
    /\ cache_layers = [l \in 1..num_layers |-> <<>>]
    /\ last_cleanup = 0
    /\ now = 0
    /\ lc_ops = 0
    /\ lc_call = NoCall
    /\ lc_written = [k \in CacheKeys |-> None]
    /\ query_patterns = <<>>
    /\ last_queries = <<>>

QueryIdle ==
    /\ is_initialized = FALSE
    /\ query_cache = {}
    /\ qo_query = [has_filter |-> FALSE, filter |-> <<>>, has_sort |-> FALSE,
                   sort |-> <<>>, has_limit |-> FALSE, limit |-> 0]
    /\ qo_data = <<>>
    /\ qo_result = Ok(<<>>)
    /\ qo_pc = "idle"

ApiIdle ==
    /\ sgx_initialized = FALSE
    /\ cell_store = [c \in Cells |-> <<>>]
    /\ response = Response("none", None, None, None, 0)
    /\ created_cells = 0

\* the cache alone: the optimizer and the API stay idle
InitCache == CacheInit /\ QueryIdle /\ ApiIdle /\ SgxIdle /\ ExtIdle

SpecCache == InitCache /\ [][CacheNext]_vars

\* one call of the query evaluator on an empty result cache
InitQuery == QueryInit /\ CacheIdle /\ ApiIdle /\ SgxIdle /\ ExtIdle

SpecQuery == InitQuery /\ [][QueryNext]_vars

\* the HTTP API with the cache and the optimizer behind it
InitApi == ApiInit /\ SgxIdle /\ ExtIdle

SpecApi == InitApi /\ [][ApiNext]_vars

\* puts and deletes with the clock advancing
InitItems == ApiInit /\ SgxIdle /\ ExtIdle

SpecItems == InitItems /\ [][ItemsNext]_vars

\* the catalog, empty at first, the producer started or not
InitCatalog ==
    /\ ExtIdle
    /\ CacheIdle
    /\ QueryIdle
    /\ ApiIdle
    /\ master_key = 0
    /\ master_key_file = 0
    /\ key_cache = <<>>
    /\ last_rotation = 0
    /\ sg_fresh = 0
    /\ sg_call = NoSgCall
    /\ sg_issued = <<>>
    /\ sg_hashes = <<>>
    /\ kafka_is_ready \in BOOLEAN
    /\ published = NoPublication

SpecCatalog == InitCatalog /\ [][CatalogNext]_vars

\* one registered user, no login attempted yet
InitLockout ==
    /\ db_users = <<[id |-> 1, email |-> "a@x", username |-> "ann"]>>
    /\ db_cells = <<>>
    /\ db_ownerships = <<>>
    /\ cc_request = NoRequest
    /\ LockIdle
    /\ RequestsIdle
    /\ MoreIdle
    /\ CacheIdle
    /\ QueryIdle
    /\ ApiIdle
    /\ master_key = 0
    /\ master_key_file = 0
    /\ key_cache = <<>>
    /\ last_rotation = 0
    /\ sg_fresh = 0
    /\ sg_call = NoSgCall
    /\ sg_issued = <<>>
    /\ sg_hashes = <<>>
    /\ kafka_is_ready = TRUE
    /\ published = NoPublication

SpecLockout == InitLockout /\ [][LockoutNext]_vars

\* the server started over cells filled by earlier puts
InitScan ==
    /\ sgx_initialized \in BOOLEAN
    /\ cell_store \in ScanStores
    /\ response = Response("none", None, None, None, 0)
    /\ created_cells = 0
    /\ is_initialized \in BOOLEAN
    /\ query_cache = {}
    /\ qo_query = NoQuery
    /\ qo_data = <<>>
    /\ qo_result = Ok(<<>>)
    /\ qo_pc = "idle"
    /\ CacheIdle
    /\ SgxIdle
    /\ ExtIdle

SpecScan == InitScan /\ [][ScanNext]_vars

\* the server started with the producer ready, the cell c1 empty
InitRequests ==
    /\ ApiIdle
    /\ is_initialized \in BOOLEAN
    /\ query_cache = {}
    /\ qo_query = NoQuery
    /\ qo_data = <<>>
    /\ qo_result = Ok(<<>>)
    /\ qo_pc = "idle"
    /\ CacheIdle
    /\ master_key = 0
    /\ master_key_file = 0
    /\ key_cache = <<>>
    /\ last_rotation = 0
    /\ sg_fresh = 0
    /\ sg_call = NoSgCall
    /\ sg_issued = <<>>
    /\ sg_hashes = <<>>
    /\ kafka_is_ready = TRUE
    /\ published = NoPublication
    /\ ExtIdle

SpecRequests == InitRequests /\ [][RequestsNext]_vars

\* the pattern learning of a cache constructed without saved patterns
InitPatterns == CacheInit /\ QueryIdle /\ ApiIdle /\ SgxIdle /\ ExtIdle

SpecPatterns == InitPatterns /\ [][PatternsNext]_vars

\* calls of an initialized enclave, the cache and the API idle
InitCrypto ==
    /\ EnclaveInit
    /\ kafka_is_ready = FALSE
    /\ published = NoPublication
    /\ cell_store = [c \in Cells |-> <<>>]
    /\ response = Response("none", None, None, None, 0)
    /\ created_cells = 0
    /\ CacheIdle
    /\ QueryIdle
    /\ ExtIdle

SpecCrypto == InitCrypto /\ [][CryptoNext]_vars

\* the publishing handlers after the startup event: the enclave is
\* initialized or not, and KafkaProducer.start has reached the broker or not
InitSecure ==
    /\ sgx_initialized \in BOOLEAN
    /\ master_key = (IF sgx_initialized THEN 1 ELSE 0)
    /\ master_key_file = master_key
    /\ key_cache = <<>>
    /\ last_rotation = 0
    /\ sg_fresh = master_key
    /\ sg_call = NoSgCall
    /\ sg_issued = <<>>
    /\ sg_hashes = <<>>
    /\ kafka_is_ready \in BOOLEAN
    /\ published = NoPublication
    /\ cell_store = [c \in Cells |-> <<>>]
    /\ response = Response("none", None, None, None, 0)
    /\ created_cells = 0
    /\ CacheIdle
    /\ QueryIdle
    /\ ExtIdle

SpecSecure == InitSecure /\ [][SecureNext]_vars

\* computations on the envelopes an initialized enclave issued
SpecCompute == InitCrypto /\ [][ComputeNext]_vars

\* a sequence of calls of the query evaluator, which keeps its result cache
InitOptimizer == OptimizerInit /\ CacheIdle /\ ApiIdle /\ SgxIdle /\ ExtIdle

SpecOptimizer == InitOptimizer /\ [][OptimizerNext]_vars

(***************************************************************************)
(* C1: every get(k) returns either nothing or the value passed to the most *)
(* recent set(k, .), and never the value of an entry older than its ttl.   *)
(***************************************************************************)
C1_CacheCorrectness ==
    lc_call.op = "get" /\ lc_call.value # None =>
        /\ lc_call.value = lc_written[lc_call.key]
        /\ ~lc_call.expired

(***************************************************************************)
(* Helpers of the claims about the HTTP API                                *)
(***************************************************************************)
\* the entries of the Liquid Cache, of every layer
CacheEntries == UNION {{cache_layers[l][i] : i \in 1..Len(cache_layers[l])} :
                          l \in 1..Len(cache_layers)}

\* the request just answered was made on an existing cell
OnCell == response.op # "none" /\ response.cell \in Cells

\* the Liquid Cache holds an entry made for a request on the cell
CellCached(cell) == \E e \in CacheEntries : e.key.cell_key = cell

\* C2: when store_cell_data has written item I of cell C and responds, the
\* response is a success and the Liquid Cache holds no entry of cell C any
\* more, so that the next read of the writer cannot be served a cached state
\* of C older than the write.
C2_WriteInvalidates ==
    response.op = "store" /\ response.committed =>
        /\ response.status \in {200, 201}
        /\ ~CellCached(response.cell)

\* C3: GET of item key k by a user with write access to the cell returns 200
\* with the stored value of k when k has been put (no delete ever removes a
\* row in this program), and 404 when it has not.
C3_GetReturnsLastPut ==
    response.op = "get" /\ OnCell /\ CanWrite(Ownership(response.user, response.cell)) =>
        IF HasKey(cell_store[response.cell], response.key)
        THEN /\ response.status = 200
             /\ response.value = ItemOf(cell_store[response.cell], response.key).value
        ELSE response.status = 404

\* C4: DELETE of an item key by a user with write access returns success,
\* whether the key is present or not, and afterwards the key is not among the
\* rows (the keys listing) of the cell.
C4_DeleteIdempotent ==
    response.op = "delete" /\ OnCell
        /\ CanWrite(Ownership(response.user, response.cell)) =>
            /\ response.status = 200
            /\ ~HasKey(cell_store[response.cell], response.key)

\* rows of a cell reach only its readers: no user is handed rows by a query
\* while every cell that user can read is empty (rows are never removed, so
\* such rows are rows of a cell the user has no ownership row for)
NoForeignRows ==
    response.op = "query" /\ response.results # <<>> =>
        \E c \in Cells : /\ Ownership(response.user, c) # "none"
                         /\ cell_store[c] # <<>>

\* C5: every request on a cell by a user without an ownership row for it is
\* answered 403, and a query hands a user no rows of a cell that user has no
\* ownership row for, whatever the caches hold from other users' requests.
C5_NoRowNoAccess ==
    /\ OnCell /\ Ownership(response.user, response.cell) = "none" =>
          response.status = 403
    /\ NoForeignRows

\* C6: a POST data or DELETE item request by a viewer of the cell is answered
\* 403 and changes no row of any cell.
C6_ViewerCannotWrite ==
    [][(/\ response'.op \in {"store", "delete"}
        /\ response'.cell \in Cells
        /\ Ownership(response'.user, response'.cell) = "viewer")
          => (response'.status = 403 /\ cell_store' = cell_store)]_vars

\* a viewer's write was refused on a cell that holds an item
C6_Witness ==
    /\ response.op \in {"store", "delete"}
    /\ OnCell
    /\ Ownership(response.user, response.cell) = "viewer"
    /\ response.status = 403
    /\ HasKey(cell_store[response.cell], response.key)


(***************************************************************************)
(* C8: the tabular path and the plain list path return identical results   *)
(* for every query and every input list.                                   *)
(***************************************************************************)
C8_PathsAgree ==
    qo_pc = "done" => qo_result = _execute_standard_query(qo_query, qo_data)

\* the positions of the input items that satisfy the filter of the query
Satisfying(query, data) ==
    {i \in 1..Len(data) : ~query.has_filter \/ _match_filters(data[i], query.filter)}

\* C7: every call optimize_query(Q, I) returns without error items of the
\* input I of that call, all of them satisfying Q.filter, and as many as
\* satisfy it, cut to Q.limit.
C7_ResultOfThisInput ==
    qo_pc = "done" =>
        /\ qo_result.status = "ok"
        /\ \A n \in 1..Len(qo_result.items) :
              \E i \in Satisfying(qo_query, qo_data) : qo_result.items[n] = qo_data[i]
        /\ Len(qo_result.items) =
              IF qo_query.has_limit
              THEN Min(qo_query.limit, Cardinality(Satisfying(qo_query, qo_data)))
              ELSE Cardinality(Satisfying(qo_query, qo_data))

\* the item has no value for a field the filter of the query names
LacksFilterField(item, query) ==
    query.has_filter /\ \E n \in 1..Len(query.filter) : query.filter[n].field \notin DOMAIN item

\* C9: an item that lacks a field named in the query filter is excluded
\* from the query result, whichever evaluation path executes the query.
C9_MissingFieldExcluded ==
    qo_pc = "done" =>
        \A i \in 1..Len(qo_data) :
            LacksFilterField(qo_data[i], qo_query) =>
                \A n \in 1..Len(qo_result.items) : qo_result.items[n].key # qo_data[i].key

(***************************************************************************)
(* Sorting.  For a sort list of several fields, the result is ordered by   *)
(* one of the listed fields first and by the others among the items equal  *)
(* on it; '-' sorts descending; items equal on all sort fields keep        *)
(* their input order (the order of their keys).                            *)
(* Pairs of items that both carry a value for every sort field are         *)
(* compared.                                                               *)
(***************************************************************************)
HasSortValues(item, sort_fields) ==
    \A n \in 1..Len(sort_fields) :
        sort_fields[n].field \in DOMAIN item /\ item[sort_fields[n].field] # NaN

DirectedBefore(x, y, sf) ==
    IF sf.desc THEN x[sf.field] > y[sf.field] ELSE x[sf.field] < y[sf.field]

Differing(x, y, sort_fields) ==
    {n \in 1..Len(sort_fields) : x[sort_fields[n].field] # y[sort_fields[n].field]}

FirstOf(S) == CHOOSE n \in S : \A m \in S : n <= m
LastOf(S) == CHOOSE n \in S : \A m \in S : n >= m

\* x may precede y when the field chosen by Primary among the differing ones decides
InOrder(x, y, sort_fields, Primary(_)) ==
    LET D == Differing(x, y, sort_fields)
    IN IF D = {} THEN x.key < y.key
       ELSE DirectedBefore(x, y, sort_fields[Primary(D)])

SortedBy(Primary(_)) ==
    qo_pc = "done" /\ qo_result.status = "ok" /\ qo_query.has_sort
        /\ Len(qo_query.sort) > 1 =>
        \A i, j \in 1..Len(qo_result.items) :
            /\ i < j
            /\ HasSortValues(qo_result.items[i], qo_query.sort)
            /\ HasSortValues(qo_result.items[j], qo_query.sort)
            => InOrder(qo_result.items[i], qo_result.items[j], qo_query.sort, Primary)

\* C10 as claimed: for a sort list of several fields the last listed field
\* is the primary sort key and the fields listed before it only break ties;
\* '-' sorts descending; items equal on all sort fields keep their input order
C10_LastFieldPrimary == SortedBy(LastOf)

\* C10 as amended: for a sort list of several fields the first listed field
\* is the primary sort key and the fields listed after it only break ties;
\* '-' sorts descending; items equal on all sort fields keep their input order
C10_FirstFieldPrimary == SortedBy(FirstOf)

\* C10 witness: a two-field sort returned two items that its two fields
\* order in opposite ways, in the order of the first field
C10_Witness ==
    /\ qo_pc = "done" /\ qo_result.status = "ok" /\ qo_query.has_sort
    /\ Len(qo_query.sort) = 2 /\ Len(qo_result.items) = 2
    /\ qo_query.sort[1].desc /\ ~qo_query.sort[2].desc
    /\ HasSortValues(qo_result.items[1], qo_query.sort)
    /\ HasSortValues(qo_result.items[2], qo_query.sort)
    /\ DirectedBefore(qo_result.items[1], qo_result.items[2], qo_query.sort[1])
    /\ DirectedBefore(qo_result.items[2], qo_result.items[1], qo_query.sort[2])


(***************************************************************************)
(* C11: decrypting the envelope encrypt(P, D) returned yields P, and two   *)
(* encrypts of the same (P, D) return envelopes with different nonces.     *)
(***************************************************************************)
C11_RoundTrip ==
    /\ (sg_call.op = "decrypt" /\ sg_call.variant = Intact) =>
          /\ ~sg_call.failed
          /\ sg_call.data = sg_issued[sg_call.issued].data
    /\ \A i, j \in 1..Len(sg_issued) :
          (/\ i # j
           /\ sg_issued[i].data = sg_issued[j].data
           /\ sg_issued[i].data_id = sg_issued[j].data_id)
          => sg_issued[i].envelope.nonce # sg_issued[j].envelope.nonce

(***************************************************************************)
(* C12: no call of the enclave changes the master secret, in memory or on  *)
(* disk, whatever time has passed; a rotation empties the derived-key      *)
(* cache (the call that rotates may then cache the one key it derives).    *)
(***************************************************************************)
C12_MasterSecretFixed ==
    [][/\ master_key' = master_key
       /\ master_key_file' = master_key_file
       /\ (last_rotation' # last_rotation => Len(key_cache') <= 1)]_vars

(***************************************************************************)
(* C13: decrypting an issued envelope whose data_id was replaced by a      *)
(* different one fails.                                                    *)
(***************************************************************************)
C13_DataIdBound ==
    (sg_call.op = "decrypt" /\ sg_call.variant = Altered("data_id")) => sg_call.failed

\* a swapped data_id is refused while the envelope as issued still decrypts
\* (no time has passed since the encryption of a non-empty plaintext)
C13_Witness ==
    /\ sg_call.op = "decrypt"
    /\ sg_call.variant = Altered("data_id")
    /\ sg_call.failed
    /\ now = 0
    /\ sg_issued[sg_call.issued].data # <<>>

(***************************************************************************)
(* C14: verify_integrity(Y, h), h a digest hash(X) returned earlier, is    *)
(* true when Y = X and false when Y differs from X.                        *)
(***************************************************************************)
C14_VerifyIffHashed ==
    sg_call.op = "verify" =>
        (sg_call.valid <=> sg_call.data = sg_hashes[sg_call.hash].data)

Malformed(operation, params) ==
    \/ operation \notin {"search", "aggregate", "filter"}
    \/ operation = "search" /\ "query" \notin params.given
    \/ /\ operation = "aggregate"
       /\ \/ "field" \notin params.given
          \/ /\ "operation" \in params.given
             /\ params.operation \notin {"sum", "avg", "max", "min", "count"}
    \/ operation = "filter" /\ ~({"field", "value"} \subseteq params.given)

\* C16: a malformed computation on a decryptable envelope returns an error
\* value
C16_ErrorValue ==
    (/\ sg_call.op = "compute"
     /\ ~sg_call.failed
     /\ Malformed(sg_call.operation, sg_call.params))
    => sg_call.ret.kind = "error"


(***************************************************************************)
(* C17: an observation of pattern P raises P.count by exactly 1 (from 0    *)
(* when P is new) and, when it follows an observation of P0, raises        *)
(* P0.successors[P] by exactly 1 and changes no other count; after the     *)
(* observations P1,P2,P1,P2,P3 on a fresh cache P1.successors[P2] = 2,     *)
(* P2.successors[P1] = 1 and P2.successors[P3] = 1.                        *)
(***************************************************************************)
AllPatterns == {_extract_pattern(qt, c) : qt \in QueryTypes, c \in PatternCells}

CountOf(patterns, P) == IF HasKey(patterns, P) THEN ItemOf(patterns, P).count ELSE 0

SuccessorsOf(patterns, P, Q) ==
    IF HasKey(patterns, P) /\ HasKey(ItemOf(patterns, P).next_patterns, Q)
    THEN ItemOf(ItemOf(patterns, P).next_patterns, Q).count
    ELSE 0

P1 == _extract_pattern("cell_query", "c1")
P2 == _extract_pattern("cell_data_access", "c1")
P3 == _extract_pattern("cell_query", "c2")

ObservationCounts ==
    last_queries' # last_queries =>
        LET P == last_queries'[Len(last_queries')]
        IN /\ last_queries' = Append(last_queries, P)
           /\ \A Q \in AllPatterns :
                 CountOf(query_patterns', Q) =
                     CountOf(query_patterns, Q) + (IF Q = P THEN 1 ELSE 0)
           /\ \A Q, R \in AllPatterns :
                 SuccessorsOf(query_patterns', Q, R) =
                     SuccessorsOf(query_patterns, Q, R) +
                     (IF /\ last_queries # <<>>
                         /\ Q = last_queries[Len(last_queries)]
                         /\ R = P
                      THEN 1 ELSE 0)

ExampleCounts ==
    last_queries = <<P1, P2, P1, P2, P3>> =>
        /\ SuccessorsOf(query_patterns, P1, P2) = 2
        /\ SuccessorsOf(query_patterns, P2, P1) = 1
        /\ SuccessorsOf(query_patterns, P2, P3) = 1

\* C17: every observation raises exactly the counts it names, and the
\* example sequence gives the successor counts 2, 1 and 1
C17_PatternCounts == [][ObservationCounts]_vars /\ []ExampleCounts

\* the five observations of the example have been made
C17_Witness ==
    /\ last_queries = <<P1, P2, P1, P2, P3>>
    /\ CountOf(query_patterns, P1) = 2
    /\ SuccessorsOf(query_patterns, P1, P2) = 2


(***************************************************************************)
(* C18: after every set the layers hold at most max_size entries; the      *)
(* entries a set evicts (expired entries the cleanup drops are not         *)
(* evictions) are taken from the coldest layer first and, within a layer,  *)
(* least accessed first and then longest unaccessed first, and an eviction *)
(* leaves exactly max_size entries.                                        *)
(***************************************************************************)
\* the entries of the layers: the layer and the CacheItem
LayerEntries(layers) ==
    UNION {{[layer |-> l, item |-> layers[l][i]] : i \in 1..Len(layers[l])} :
              l \in 1..Len(layers)}

SameEntry(e, f) == e.layer = f.layer /\ e.item.key = f.item.key

\* the entries the set of this step found or stored, the entry it
\* overwrote left out
BeforeEviction ==
    LET target == NewItemLayer(lc_call'.predicted, num_layers) + 1
        new == [layer |-> target,
                item |-> CacheItem(lc_call'.key, lc_call'.value, LIQUID_CACHE_TTL, now)]
    IN {new} \cup {e \in LayerEntries(cache_layers) : ~SameEntry(e, new)}

Evicted ==
    {e \in BeforeEviction :
        /\ ~is_expired(e.item, now)
        /\ \A f \in LayerEntries(cache_layers') : ~SameEntry(e, f)}

\* kept is less accessed than gone, or as much and accessed longer ago
KeptWrongly(kept, gone) ==
    \/ kept.access_count < gone.access_count
    \/ /\ kept.access_count = gone.access_count
       /\ kept.last_accessed < gone.last_accessed

BoundedAndColdestFirst ==
    (lc_ops' # lc_ops /\ lc_call'.op = "set") =>
        /\ TotalSize(cache_layers') <= MaxSize
        /\ \A f \in LayerEntries(cache_layers') :
              \E e \in BeforeEviction : SameEntry(e, f)
        /\ Evicted # {} =>
              /\ TotalSize(cache_layers') = MaxSize
              /\ \A e \in Evicted, f \in LayerEntries(cache_layers') :
                    \/ e.layer > f.layer
                    \/ /\ e.layer = f.layer
                       /\ ~KeptWrongly(f.item, e.item)

\* C18: every set step leaves at most max_size entries and evicts coldest
\* layer first, least accessed and longest unaccessed first
C18_BoundedAndColdestFirst == [][BoundedAndColdestFirst]_vars

\* max_size + 1 calls, the last one a set, without time passing: a key
\* that was set is gone and max_size entries are left
C18_Witness ==
    /\ lc_call.op = "set"
    /\ lc_ops = MaxSize + 1
    /\ now = 0
    /\ TotalSize(cache_layers) = MaxSize
    /\ \E k \in CacheKeys :
          /\ lc_written[k] # None
          /\ \A l \in 1..num_layers : ~HasKey(cache_layers[l], k)


(***************************************************************************)
(* C19: POST /cells/{key}/data answers 201 when it creates an item key     *)
(* that was absent from the cell and 200 when it overwrites one that was   *)
(* present.                                                                *)
(***************************************************************************)
C19_CreatedOrOk ==
    [][(/\ lc_ops' # lc_ops
        /\ response'.op = "store"
        /\ response'.committed)
       => response'.status =
             IF HasKey(cell_store[response'.cell], response'.key) THEN 200 ELSE 201]_vars

(***************************************************************************)
(* C20: a request returns the response it would return had its             *)
(* publication succeeded, whatever became of the publication.              *)
(***************************************************************************)
C20_PublicationNeutral ==
    /\ response.op = "create_cell" => response.status = 200
    /\ response.op = "secure_encrypt" =>
          response.status = secure_encrypt_status(sgx_initialized, sg_call.failed, "sent")
    /\ response.op = "secure_decrypt" =>
          response.status = secure_decrypt_status(sgx_initialized, sg_call.failed, "sent")
    /\ response.op = "secure_compute" =>
          response.status = secure_compute_status(sgx_initialized, sg_call.operation,
                                                  sg_call.failed, "sent")


(***************************************************************************)
(* C21: an error a cache operation raises during a request is swallowed:   *)
(* a put or delete whose statement was committed to the cell store is      *)
(* answered with its normal response.                                      *)
(***************************************************************************)
C21_CacheErrorsSwallowed ==
    (response.op \in {"store", "delete"} /\ response.committed) => response.status = 200


(***************************************************************************)
(* C22: in every state of the catalog, between the commits of create_cell  *)
(* and after a failure of it included, each cell has an ownership row with *)
(* permission_level owner and no (user, cell) has two ownership rows.      *)
(***************************************************************************)
C22_EveryCellOwned ==
    /\ \A c \in 1..Len(db_cells) :
          \E o \in 1..Len(db_ownerships) :
             /\ db_ownerships[o].cell_id = db_cells[c].id
             /\ db_ownerships[o].permission_level = "owner"
    /\ \A o, q \in 1..Len(db_ownerships) :
          (/\ db_ownerships[o].user_id = db_ownerships[q].user_id
           /\ db_ownerships[o].cell_id = db_ownerships[q].cell_id) => o = q

(***************************************************************************)
(* C28: a registration with an email a user already has is answered 400    *)
(* and creates no user; no two users share an email.                       *)
(***************************************************************************)
C28_DuplicateEmailRejected ==
    [][\A email \in Emails :
          (/\ response' # response \/ db_users' # db_users
           /\ response'.op = "register"
           /\ response'.user = email
           /\ \E i \in 1..Len(db_users) : db_users[i].email = email)
          => (response'.status = 400 /\ db_users' = db_users)]_vars
    /\ [](\A i, j \in 1..Len(db_users) : db_users[i].email = db_users[j].email => i = j)

\* a registration was refused with 400 while two other users exist
C28_Witness ==
    /\ response.op = "register"
    /\ response.status = 400
    /\ Len(db_users) = 2


\* the failed logins of an account later than the first `after` reported
\* ones reached max_login_attempts within the window at the i-th
ReachedAt(email, after, i) ==
    /\ i > after
    /\ failed_logins[i].email = email
    /\ Cardinality({j \in (after + 1)..i :
                       /\ failed_logins[j].email = email
                       /\ failed_logins[j].at >= failed_logins[i].at - lockout_duration_minutes})
          >= max_login_attempts

\* a lockout of the account is running
LockDue(email, after) ==
    \E i \in 1..Len(failed_logins) :
       /\ ReachedAt(email, after, i)
       /\ failed_logins[i].at + lockout_duration_minutes > utcnow

(***************************************************************************)
(* C29: once the failed logins of an account within the window reach       *)
(* max_login_attempts, the account is locked and a login check for it      *)
(* reports locked until the lock duration has passed.                      *)
(***************************************************************************)
C29_LockedAfterFailures ==
    \A email \in Emails :
       (Registered(email) /\ LockDue(email, 0)) =>
          /\ user_locks[email].is_locked
          /\ (lock_call.op = "check_account_lockout" /\ lock_call.email = email)
                => lock_call.outcome = "True"

C27_OtherCellsUnchanged ==
    [][\A cell_key \in Cells :
          (/\ response' # response
           /\ response'.op \in {"store", "delete"}
           /\ response'.cell = cell_key)
          => \A other \in Cells \ {cell_key} :
                /\ cell_store'[other] = cell_store[other]
                /\ RowKeys(cell_store'[other]) = RowKeys(cell_store[other])]_vars

\* a put was committed to c1 while c2 holds an item
C27_Witness ==
    /\ response.op = "store"
    /\ response.cell = "c1"
    /\ response.committed
    /\ cell_store["c1"] # <<>>
    /\ cell_store["c2"] # <<>>


(***************************************************************************)
(* C25: in a query scan with the enclave on, an item whose stored value    *)
(* fails to decrypt does not abort the scan: every item of the cell is     *)
(* returned, and the failing ones carry the marker decryption_error.       *)
(***************************************************************************)
C25_FailedItemsMarked ==
    [][\A u \in Users, c \in Cells :
          (/\ query_cell_data(u, c, NoQuery)
           /\ sgx_initialized
           /\ response'.status = 200
           /\ ~response'.cached)
          => \A i \in 1..Len(cell_store[c]) :
                \E j \in 1..Len(response'.results) :
                   /\ response'.results[j].key = cell_store[c][i].key
                   /\ "decryption_error" \in DOMAIN response'.results[j]]_vars

(***************************************************************************)
(* C26: filter and sort refer to the fields of the JSON value of each      *)
(* item: over n, m, o the query {filter: {active: true}, sort: ["-count"], *)
(* limit: 1} returns exactly m, and every item a filtered query returns    *)
(* has each filtered field with the requested value.                       *)
(***************************************************************************)
C26_FilterOnValueFields ==
    [][\A u \in Users, c \in Cells :
          /\ (/\ query_cell_data(u, c, TopActiveQuery)
              /\ cell_store[c] = ObjectRows
              /\ response'.status = 200)
             => RowKeys(response'.results) = <<"m">>
          /\ \A q \in {TopActiveQuery, ActiveQuery} :
                (query_cell_data(u, c, q) /\ response'.status = 200)
                => \A j \in 1..Len(response'.results) :
                      \A n \in 1..Len(q.filter) :
                         LET value == json_loads_value(response'.results[j].value)
                         IN /\ q.filter[n].field \in DOMAIN value
                            /\ value[q.filter[n].field] = q.filter[n].value]_vars


\* the position in commits of the write a query response shows, 0 if it
\* shows no item
Observed(results) ==
    IF results = <<>> THEN 0 ELSE PositionIn(commits, results[1].value)

(***************************************************************************)
(* C23: concurrent puts to one item are linearizable: a put that ran took  *)
(* effect exactly once and did not fail, and a read that starts after a    *)
(* put has returned observes that put or a later one.                      *)
(***************************************************************************)
C23_PutsLinearizable ==
    \A cl \in Clients :
       /\ (calls[cl].op = "put" /\ calls[cl].pc = "ran") =>
             Cardinality({i \in 1..Len(commits) : commits[i] = calls[cl].value}) = 1
       /\ (calls[cl].op = "query" /\ calls[cl].pc = "ran") =>
             /\ calls[cl].status = 200
             /\ Observed(calls[cl].results) >= calls[cl].floor

SetPlacedIn(layer) ==
    (lc_ops' # lc_ops /\ now' = now /\ lc_call'.op = "set")
    => /\ \A l \in (1..num_layers) \ {layer + 1} :
             \A i \in 1..Len(cache_layers'[l]) :
                \E j \in 1..Len(cache_layers[l]) : cache_layers[l][j] = cache_layers'[l][i]
       /\ \/ HasKey(cache_layers'[layer + 1], lc_call'.key)
          \/ TotalSize(cache_layers') >= MaxSize

(***************************************************************************)
(* C31: set places a predicted entry in layer 1 and every other new entry  *)
(* in the coldest layer, num_layers - 1, for every num_layers >= 2.        *)
(***************************************************************************)
C31_NewEntryInColdestLayer ==
    [][SetPlacedIn(IF lc_call'.predicted THEN 1 ELSE num_layers - 1)]_vars

\* as the code has it: a predicted entry in layer 1, every other new entry
\* in layer 2, or in layer 1 when there are two layers only
C31_NewEntryInLayerTwo ==
    [][SetPlacedIn(IF lc_call'.predicted \/ num_layers = 2 THEN 1 ELSE 2)]_vars

\* with four layers, the last set was not predicted and its entry is in layer 2
C31_Witness ==
    /\ num_layers = 4
    /\ lc_call.op = "set"
    /\ ~lc_call.predicted
    /\ HasKey(cache_layers[3], lc_call.key)


\* this step is a put that wrote the item key of the cell
PutWrote(cell_key, key) ==
    /\ lc_ops' # lc_ops
    /\ response'.op = "store"
    /\ response'.committed
    /\ response'.cell = cell_key
    /\ response'.key = key

\* the last request was a delete of the item by a user allowed to write
\* the cell
DeleteAccepted(cell_key, key) ==
    /\ response.op = "delete"
    /\ response.cell = cell_key
    /\ response.key = key
    /\ response.status \notin {403, 404}

(***************************************************************************)
(* C32: the first put of an absent key sets created_at and updated_at; a   *)
(* later put changes only the value and updated_at and leaves created_at   *)
(* and the keys unchanged; a put after a delete creates the item anew with *)
(* a fresh created_at.                                                     *)
(***************************************************************************)
C32_PutTimestamps ==
    [][\A cell_key \in Cells, key \in ItemKeys :
          PutWrote(cell_key, key) =>
             LET before == cell_store[cell_key]
                 after == cell_store'[cell_key]
             IN /\ HasKey(after, key)
                /\ ItemOf(after, key).updated_at = now
                /\ ~HasKey(before, key) => ItemOf(after, key).created_at = now
                /\ (HasKey(before, key) /\ ~DeleteAccepted(cell_key, key)) =>
                      /\ ItemOf(after, key).created_at = ItemOf(before, key).created_at
                      /\ RowKeys(after) = RowKeys(before)
                /\ DeleteAccepted(cell_key, key) => ItemOf(after, key).created_at = now]_vars


(***************************************************************************)
(* Threads in LiquidCache.  Each thread of Threads calls                   *)
(* register_query(query_type, params, load_func=f); the call updates the   *)
(* patterns, predicts the next queries, adds their number to               *)
(* self.predictions and starts a preload_worker thread, which gets each    *)
(* predicted key, loads it on a miss, sets it and adds 1 to                *)
(* self.successful_predictions.  A statement under "with self.lock" is one *)
(* step, marked locked.  "self.x += n" outside the lock is a read of x     *)
(* followed by a write of x, and other threads run between the two.        *)
(***************************************************************************)
MaxRegistrations == 4
LIQUID_CACHE_PREDICTION_THRESHOLD == 7    \* 0.7, in tenths
PredictThreshold == 3                     \* get_next_patterns(threshold=0.3), in tenths

\* QueryPattern.get_next_patterns: the successors whose share of the
\* successor counts reaches the threshold, with that share as count / total
get_next_patterns(p, threshold) ==
    LET total == SumOf([i \in 1..Len(p.next_patterns) |-> p.next_patterns[i].count])
        shares == [i \in 1..Len(p.next_patterns) |->
                      [pattern |-> p.next_patterns[i].key,
                       count |-> p.next_patterns[i].count, total |-> total]]
    IN SelectSeq(shares, LAMBDA s : 10 * s.count >= threshold * s.total)

_predict_next_queries(patterns, pattern) ==
    IF ~HasKey(patterns, pattern) THEN <<>>
    ELSE get_next_patterns(ItemOf(patterns, pattern), PredictThreshold)

threadFrame == <<queryVars, apiVars, sgxVars, busVars, catalogVars, lockVars, reqVars,
                keyVars, consumerVars, limiterVars, hexVars>>

\* register_query up to self._update_patterns(pattern), which holds the lock
ThreadRegister(t, cell_key) ==
    /\ threads[t].pc = "idle"
    /\ threads[t].wpc \in {"none", "done"}
    /\ lc_ops < MaxRegistrations
    /\ LET pattern == _extract_pattern("cell_query", cell_key)
           upd == _update_patterns(query_patterns, last_queries, pattern, now)
       IN /\ query_patterns' = upd.query_patterns
          /\ last_queries' = upd.last_queries
          /\ threads' = [threads EXCEPT ![t].pc = "updated", ![t].pattern = pattern]
    /\ lc_ops' = lc_ops + 1
    /\ last_step' = [stmt |-> "_update_patterns", locked |-> TRUE]
    /\ UNCHANGED <<num_layers, cache_layers, last_cleanup, now, lc_call, lc_written,
                   stats, counted>>
    /\ UNCHANGED threadFrame

\* _preload_predicted_queries: predictions = self._predict_next_queries(pattern),
\* a read of the pattern table without the lock
ThreadPredict(t) ==
    /\ threads[t].pc = "updated"
    /\ LET predictions == _predict_next_queries(query_patterns, threads[t].pattern)
       IN threads' = [threads EXCEPT ![t].predictions = predictions,
                                     ![t].pc = IF predictions = <<>> THEN "idle"
                                               ELSE "predicted"]
    /\ last_step' = [stmt |-> "_predict_next_queries", locked |-> FALSE]
    /\ UNCHANGED <<cacheVars, stats, counted>>
    /\ UNCHANGED threadFrame

\* self.predictions += len(predictions): the read
ThreadLoad(t) ==
    /\ threads[t].pc = "predicted"
    /\ threads' = [threads EXCEPT ![t].reg = stats.predictions, ![t].pc = "loaded"]
    /\ last_step' = [stmt |-> "read predictions", locked |-> FALSE]
    /\ UNCHANGED <<cacheVars, stats, counted>>
    /\ UNCHANGED threadFrame

\* the position of a worker after the prediction at index i
WorkerAt(t, i) ==
    IF i > Len(threads[t].predictions) THEN [wpc |-> "done", windex |-> 0]
    ELSE [wpc |-> "get", windex |-> i]

\* self.predictions += len(predictions): the write, then
\* threading.Thread(target=preload_worker).start()
ThreadStore(t) ==
    /\ threads[t].pc = "loaded"
    /\ stats' = [stats EXCEPT !.predictions = threads[t].reg + Len(threads[t].predictions)]
    /\ counted' = [counted EXCEPT !.predictions = @ + Len(threads[t].predictions)]
    /\ threads' = [threads EXCEPT ![t].pc = "idle", ![t].wpc = "get", ![t].windex = 1]
    /\ last_step' = [stmt |-> "write predictions", locked |-> FALSE]
    /\ UNCHANGED cacheVars
    /\ UNCHANGED threadFrame

\* preload_worker: the threshold test, the key and self.get(key), which
\* holds the lock and counts a hit or a miss
WorkerGet(t) ==
    /\ threads[t].wpc = "get"
    /\ LET p == threads[t].predictions[threads[t].windex]
           next == WorkerAt(t, threads[t].windex + 1)
       IN IF 10 * p.count < LIQUID_CACHE_PREDICTION_THRESHOLD * p.total
          THEN /\ threads' = [threads EXCEPT ![t].wpc = next.wpc, ![t].windex = next.windex]
               /\ last_step' = [stmt |-> "threshold", locked |-> TRUE]
               /\ UNCHANGED <<cacheVars, stats>>
          ELSE LET key == _generate_key(p.pattern[1], p.pattern[2], None, NoQuery, None)
                   r == LC_get(cache_layers, last_cleanup, key, now)
               IN /\ cache_layers' = r.layers
                  /\ last_cleanup' = r.last_cleanup
                  /\ stats' = IF r.hit THEN [stats EXCEPT !.hits = @ + 1]
                              ELSE [stats EXCEPT !.misses = @ + 1]
                  /\ threads' = IF r.hit
                                THEN [threads EXCEPT ![t].wpc = next.wpc,
                                                     ![t].windex = next.windex]
                                ELSE [threads EXCEPT ![t].wpc = "load"]
                  /\ last_step' = [stmt |-> "get", locked |-> TRUE]
                  /\ UNCHANGED <<num_layers, now, lc_ops, lc_call, lc_written,
                                 query_patterns, last_queries>>
    /\ UNCHANGED counted
    /\ UNCHANGED threadFrame

\* preload_worker: result = load_func(query_type, params) and, if the result
\* is not empty, self.set(key, result, predicted=True), which holds the lock
WorkerSet(t, result) ==
    /\ threads[t].wpc = "load"
    /\ LET p == threads[t].predictions[threads[t].windex]
           next == WorkerAt(t, threads[t].windex + 1)
           key == _generate_key(p.pattern[1], p.pattern[2], None, NoQuery, None)
           r == LC_set(cache_layers, last_cleanup, key, result, 0, TRUE, now)
       IN IF result = None
          THEN /\ threads' = [threads EXCEPT ![t].wpc = next.wpc, ![t].windex = next.windex]
               /\ last_step' = [stmt |-> "load_func", locked |-> TRUE]
               /\ UNCHANGED <<cache_layers, last_cleanup>>
          ELSE /\ cache_layers' = r.layers
               /\ last_cleanup' = r.last_cleanup
               /\ threads' = [threads EXCEPT ![t].wpc = "stored"]
               /\ last_step' = [stmt |-> "set", locked |-> TRUE]
    /\ UNCHANGED <<num_layers, now, lc_ops, lc_call, lc_written, query_patterns,
                   last_queries, stats, counted>>
    /\ UNCHANGED threadFrame

\* self.successful_predictions += 1: the read
WorkerLoad(t) ==
    /\ threads[t].wpc = "stored"
    /\ threads' = [threads EXCEPT ![t].wreg = stats.successful_predictions,
                                  ![t].wpc = "counting"]
    /\ last_step' = [stmt |-> "read successful_predictions", locked |-> FALSE]
    /\ UNCHANGED <<cacheVars, stats, counted>>
    /\ UNCHANGED threadFrame

\* self.successful_predictions += 1: the write
WorkerStore(t) ==
    /\ threads[t].wpc = "counting"
    /\ LET next == WorkerAt(t, threads[t].windex + 1)
       IN threads' = [threads EXCEPT ![t].wpc = next.wpc, ![t].windex = next.windex]
    /\ stats' = [stats EXCEPT !.successful_predictions = threads[t].wreg + 1]
    /\ counted' = [counted EXCEPT !.successful_predictions = @ + 1]
    /\ last_step' = [stmt |-> "write successful_predictions", locked |-> FALSE]
    /\ UNCHANGED cacheVars
    /\ UNCHANGED threadFrame

ThreadsNext ==
    \/ \E t \in Threads, c \in PatternCells : ThreadRegister(t, c)
    \/ \E t \in Threads : ThreadPredict(t)
    \/ \E t \in Threads : ThreadLoad(t)
    \/ \E t \in Threads : ThreadStore(t)
    \/ \E t \in Threads : WorkerGet(t)
    \/ \E t \in Threads, result \in {"v1", None} : WorkerSet(t, result)
    \/ \E t \in Threads : WorkerLoad(t)
    \/ \E t \in Threads : WorkerStore(t)

\* a cache that loaded no saved patterns, and two threads about to call
InitThreads ==
    /\ CacheIdle /\ QueryIdle /\ ApiIdle /\ SgxIdle /\ ExtIdle

SpecThreads == InitThreads /\ [][ThreadsNext]_vars

\* no increment of a prediction counter was overwritten by another thread's:
\* each counter equals the sum of the increments the threads completed
NoLostUpdate ==
    /\ stats.predictions = counted.predictions
    /\ stats.successful_predictions = counted.successful_predictions

\* C33: every statement that reads or writes the state of LiquidCache holds
\* the cache's lock, and no update of that state by one thread is lost to
\* another thread's.
C33_LockedAndNoLostUpdate == last_step.locked /\ NoLostUpdate

(***************************************************************************)
(* Threads in SGXEnclave._derive_key_for_data.  The class takes no lock,   *)
(* so each statement that reads or writes self.key_cache,                  *)
(* self.last_rotation or self.master_key is a step of its own and the      *)
(* steps of the threads interleave.                                        *)
(***************************************************************************)
MaxRotations == 2

keyFrame == <<num_layers, cache_layers, last_cleanup, lc_ops, lc_call, lc_written,
              query_patterns, last_queries, queryVars, apiVars, busVars, catalogVars,
              lockVars, reqVars, threadVars, consumerVars, limiterVars, hexVars, sg_call,
              sg_issued, sg_hashes>>

\* a thread enters _derive_key_for_data(data_id)
DeriveCall(t, data_id) ==
    /\ derivers[t].pc = "idle"
    /\ derivers' = [derivers EXCEPT ![t] = [NoDerivation EXCEPT !.pc = "check",
                                                               !.data_id = data_id]]
    /\ UNCHANGED <<now, master_key, master_key_file, key_cache, last_rotation, sg_fresh>>
    /\ UNCHANGED keyFrame

\* _rotate_keys_if_needed: current_time = time.time() and the test
RotateCheck(t) ==
    /\ derivers[t].pc = "check"
    /\ derivers' = [derivers EXCEPT
                      ![t].current_time = now,
                      ![t].pc = IF now - last_rotation > rotation_interval THEN "clear"
                                ELSE "lookup"]
    /\ UNCHANGED <<now, master_key, master_key_file, key_cache, last_rotation, sg_fresh>>
    /\ UNCHANGED keyFrame

\* self.key_cache = {} and self.last_rotation = current_time
RotateClear(t) ==
    /\ derivers[t].pc = "clear"
    /\ key_cache' = <<>>
    /\ last_rotation' = derivers[t].current_time
    /\ derivers' = [derivers EXCEPT ![t].pc = IF simulation_mode THEN "master" ELSE "lookup"]
    /\ UNCHANGED <<now, master_key, master_key_file, sg_fresh>>
    /\ UNCHANGED keyFrame

\* self.master_key = pbkdf2_hmac(old key, random salt), written to master.key
RotateMaster(t) ==
    /\ derivers[t].pc = "master"
    /\ master_key' = sg_fresh + 1
    /\ master_key_file' = sg_fresh + 1
    /\ sg_fresh' = sg_fresh + 1
    /\ derivers' = [derivers EXCEPT ![t].pc = "lookup"]
    /\ UNCHANGED <<now, key_cache, last_rotation>>
    /\ UNCHANGED keyFrame

\* if data_id in self.key_cache: return self.key_cache[data_id]
DeriveLookup(t) ==
    /\ derivers[t].pc = "lookup"
    /\ derivers' = [derivers EXCEPT
                      ![t].pc = IF HasKey(key_cache, derivers[t].data_id) THEN "idle"
                                ELSE "derive",
                      ![t].key = IF HasKey(key_cache, derivers[t].data_id)
                                 THEN ItemOf(key_cache, derivers[t].data_id).value
                                 ELSE @]
    /\ UNCHANGED <<now, master_key, master_key_file, key_cache, last_rotation, sg_fresh>>
    /\ UNCHANGED keyFrame

\* key = hmac.new(self.master_key, data_id, sha256).digest()
DeriveHmac(t) ==
    /\ derivers[t].pc = "derive"
    /\ derivers' = [derivers EXCEPT ![t].key = hmac_sha256(master_key, derivers[t].data_id),
                                    ![t].pc = "cache"]
    /\ UNCHANGED <<now, master_key, master_key_file, key_cache, last_rotation, sg_fresh>>
    /\ UNCHANGED keyFrame

\* self.key_cache[data_id] = key; return key
DeriveCache(t) ==
    /\ derivers[t].pc = "cache"
    /\ LET entry == [key |-> derivers[t].data_id, value |-> derivers[t].key]
       IN key_cache' = IF HasKey(key_cache, entry.key) THEN DictPut(key_cache, entry)
                       ELSE Append(key_cache, entry)
    /\ derivers' = [derivers EXCEPT ![t].pc = "idle"]
    /\ UNCHANGED <<now, master_key, master_key_file, last_rotation, sg_fresh>>
    /\ UNCHANGED keyFrame

\* more than a rotation interval passes
RotationDue ==
    /\ now < MaxRotations * (rotation_interval + 1)
    /\ now' = now + rotation_interval + 1
    /\ UNCHANGED <<master_key, master_key_file, key_cache, last_rotation, sg_fresh,
                   derivers>>
    /\ UNCHANGED keyFrame

KeysNext ==
    \/ \E t \in Threads, d \in DataIds : DeriveCall(t, d)
    \/ \E t \in Threads : RotateCheck(t)
    \/ \E t \in Threads : RotateClear(t)
    \/ \E t \in Threads : RotateMaster(t)
    \/ \E t \in Threads : DeriveLookup(t)
    \/ \E t \in Threads : DeriveHmac(t)
    \/ \E t \in Threads : DeriveCache(t)
    \/ RotationDue

SpecKeys == InitCrypto /\ [][KeysNext]_vars

\* C34: every entry of the derived-key cache for a data_id D is
\* HMAC-SHA256(current master key, D), whatever derivations and rotations
\* the threads are in the middle of.
C34_CachedKeysCurrent ==
    \A i \in 1..Len(key_cache) :
        key_cache[i].value = [hmac |-> "sha256", key |-> master_key, msg |-> key_cache[i].key]


(***************************************************************************)
(* KafkaConsumer.  start, stop and _consume_messages are coroutines on one *)
(* event loop: a step runs from one await to the next.  register_handler   *)
(* is a plain function.  A handler is one of Handlers; subscribed holds    *)
(* the registrations since the last stop.                                  *)
(***************************************************************************)
MaxRecords == 2
Handlers == {"h1"}
TopicLists == {<<"cells">>, <<"audit">>, <<"cells", "audit">>}

consumerFrame == <<cacheVars, queryVars, apiVars, sgxVars, busVars, catalogVars, lockVars,
                   reqVars, threadVars, keyVars, limiterVars, hexVars>>

\* KafkaConsumer.stop
stopped ==
    /\ consumers' = {}
    /\ handlers' = NoHandlers
    /\ running' = FALSE
    /\ subscribed' = {}

\* a call of start(topics)
ConsumerStart(s, topics) ==
    /\ starts[s].pc = "idle"
    /\ starts' = [starts EXCEPT ![s] = [pc |-> "loop", topics |-> topics]]
    /\ UNCHANGED <<consumers, handlers, running, received, subscribed>>
    /\ UNCHANGED consumerFrame

\* start: the loop up to "await consumer.start()", or the end of the loop
\* and self.running = True
StartConnect(s) ==
    /\ starts[s].pc = "loop"
    /\ IF starts[s].topics = <<>>
       THEN /\ running' = TRUE
            /\ starts' = [starts EXCEPT ![s] = NoStart]
       ELSE /\ starts' = IF Head(starts[s].topics) \in consumers
                         THEN [starts EXCEPT ![s].topics = Tail(@)]
                         ELSE [starts EXCEPT ![s].pc = "connecting"]
            /\ UNCHANGED running
    /\ UNCHANGED <<consumers, handlers, received, subscribed>>
    /\ UNCHANGED consumerFrame

\* start after "await consumer.start()": the consumer and an empty handler
\* list are stored and the consuming task is created; if the broker refused,
\* the except branch calls stop
StartAttach(s, connected) ==
    /\ starts[s].pc = "connecting"
    /\ IF connected
       THEN /\ consumers' = consumers \cup {Head(starts[s].topics)}
            /\ handlers' = [handlers EXCEPT ![Head(starts[s].topics)] =
                               [present |-> TRUE, list |-> <<>>]]
            /\ starts' = [starts EXCEPT ![s].pc = "loop", ![s].topics = Tail(@)]
            /\ UNCHANGED <<running, subscribed>>
       ELSE /\ stopped
            /\ starts' = [starts EXCEPT ![s] = NoStart]
    /\ UNCHANGED received
    /\ UNCHANGED consumerFrame

\* register_handler(topic, handler); the task it creates is a call of
\* start([topic])
register_handler(topic, handler) ==
    /\ <<topic, handler>> \notin subscribed
    /\ handlers' = [handlers EXCEPT ![topic] =
                       [present |-> TRUE, list |-> Append(@.list, handler)]]
    /\ subscribed' = subscribed \cup {<<topic, handler>>}
    /\ IF topic \notin consumers /\ running
       THEN \E s \in StartCalls :
               /\ starts[s].pc = "idle"
               /\ starts' = [starts EXCEPT ![s] = [pc |-> "loop", topics |-> <<topic>>]]
       ELSE UNCHANGED starts
    /\ UNCHANGED <<consumers, running, received>>
    /\ UNCHANGED consumerFrame

\* _consume_messages: a record arrives on a topic that has a consumer, and
\* each handler of self.handlers.get(topic, []) is awaited
ConsumeMessage(topic) ==
    /\ topic \in consumers
    /\ Len(received) < MaxRecords
    /\ received' = Append(received,
                          [topic |-> topic,
                           subscribed |-> {h \in Handlers : <<topic, h>> \in subscribed},
                           invoked |-> IF handlers[topic].present THEN handlers[topic].list
                                       ELSE <<>>])
    /\ UNCHANGED <<consumers, handlers, running, starts, subscribed>>
    /\ UNCHANGED consumerFrame

\* a call of stop()
ConsumerStop ==
    /\ stopped
    /\ UNCHANGED <<starts, received>>
    /\ UNCHANGED consumerFrame

ConsumerNext ==
    \/ \E s \in StartCalls, topics \in TopicLists : ConsumerStart(s, topics)
    \/ \E s \in StartCalls : StartConnect(s)
    \/ \E s \in StartCalls, connected \in BOOLEAN : StartAttach(s, connected)
    \/ \E topic \in Topics, handler \in Handlers : register_handler(topic, handler)
    \/ \E topic \in Topics : ConsumeMessage(topic)
    \/ ConsumerStop

InitConsumer == CacheIdle /\ QueryIdle /\ ApiIdle /\ SgxIdle /\ ExtIdle

SpecConsumer == InitConsumer /\ [][ConsumerNext]_vars

\* the number of times handler h occurs in a list of invocations
Invocations(list, h) == Cardinality({i \in 1..Len(list) : list[i] = h})

\* C35: for each record received on a topic, every handler subscribed to
\* that topic since the last stop, before or after the consumer of the
\* topic was started, is invoked exactly once.
C35_SubscribedHandlersInvoked ==
    \A i \in 1..Len(received) :
        \A h \in received[i].subscribed : Invocations(received[i].invoked, h) = 1


\* C36: a key is present in at most one layer map, and the layer field of
\* each entry is the index of the layer map that holds it (layer index i is
\* element i + 1 of cache_layers).
C36_OneLayerPerKey ==
    /\ \A l, m \in 1..num_layers :
          \A i \in 1..Len(cache_layers[l]), j \in 1..Len(cache_layers[m]) :
             cache_layers[l][i].key = cache_layers[m][j].key => l = m
    /\ \A l \in 1..num_layers :
          \A i \in 1..Len(cache_layers[l]) : cache_layers[l][i].layer = l - 1


\* C37: a put that wrote to the cell store has its encrypted flag set
\* exactly when encrypt_data returned an envelope; when encrypt_data failed
\* (returned None) the flag is false and the stored value is the submitted
\* one.
C37_FlagMatchesStoredValue ==
    [][(lc_ops' # lc_ops /\ response'.op = "store" /\ response'.committed)
       => LET stored == ItemOf(cell_store'[response'.cell], response'.key).value
          IN /\ response'.encrypted <=> response'.encrypt_result = "envelope"
             /\ response'.encrypt_result = "None" =>
                   ~response'.encrypted /\ stored = response'.submitted]_vars


\* C38: a GET item or POST query request answered with 403 or 404 leaves
\* the cache entries, the learned query patterns (counts and successors)
\* and the pattern history as they were.
C38_RejectedRequestChangesNothing ==
    [][(lc_ops' # lc_ops /\ response'.op \in {"get", "query"}
        /\ response'.status \in {403, 404})
       => /\ cache_layers' = cache_layers
          /\ query_patterns' = query_patterns
          /\ last_queries' = last_queries]_vars


(***************************************************************************)
(* AdvancedSecurity.rate_limit_middleware.  The clock is datetime.now() in *)
(* seconds.  The setting ip_rate_limit (100 requests by default) is scaled *)
(* down to 2.  limiter_log keeps, for each request, the address, the time, *)
(* whether the address was blocked, and whether the request passed.        *)
(***************************************************************************)
ip_rate_limit == 2
RateWindow == 60
enable_audit_logging == TRUE
MaxLimited == 5
MaxLimiterTime == 200
LimiterSteps == {45, 61}

limiterFrame == <<num_layers, cache_layers, last_cleanup, lc_ops, lc_call, lc_written,
                  query_patterns, last_queries, queryVars, apiVars, sgxVars, busVars,
                  catalogVars, reqVars, threadVars, keyVars, consumerVars, hexVars, user_locks,
                  utcnow, lock_call, failed_logins, last_success>>

Logged(ip, blocked, outcome) ==
    Append(limiter_log, [ip |-> ip, at |-> now, blocked |-> blocked, outcome |-> outcome])

\* the requests of the address ip among the first i logged ones that were
\* made during the 60 seconds up to request i
RecentRequests(i) ==
    {j \in 1..i : /\ limiter_log[j].ip = limiter_log[i].ip
                  /\ limiter_log[i].at - limiter_log[j].at <= RateWindow}

rate_limit_middleware(client_ip) ==
    /\ Len(limiter_log) < MaxLimited
    /\ LET entry == rate_limit_cache[client_ip]
           raised == [present |-> TRUE, requests |-> entry.requests + 1,
                       last_request |-> now]
           first == [present |-> TRUE, requests |-> 1, last_request |-> now]
       IN IF client_ip \in blocked_ips
          THEN /\ limiter_log' = Logged(client_ip, TRUE, "429")
               /\ UNCHANGED <<rate_limit_cache, blocked_ips, unblock_tasks, audit_logs>>
          ELSE IF ~entry.present \/ now - entry.last_request > RateWindow
          THEN /\ rate_limit_cache' = [rate_limit_cache EXCEPT ![client_ip] = first]
               /\ limiter_log' = Logged(client_ip, FALSE, "pass")
               /\ UNCHANGED <<blocked_ips, unblock_tasks, audit_logs>>
          ELSE /\ rate_limit_cache' = [rate_limit_cache EXCEPT ![client_ip] = raised]
               /\ IF entry.requests <= ip_rate_limit
                  THEN /\ limiter_log' = Logged(client_ip, FALSE, "pass")
                       /\ UNCHANGED <<blocked_ips, unblock_tasks, audit_logs>>
                  ELSE IF enable_audit_logging /\ ~AuditLogAccepted
                  THEN \* _log_suspicious_activity: AuditLog(action_type=...) raises
                       /\ limiter_log' = Logged(client_ip, FALSE, "TypeError")
                       /\ UNCHANGED <<blocked_ips, unblock_tasks, audit_logs>>
                  ELSE /\ audit_logs' =
                             IF enable_audit_logging
                             THEN Append(audit_logs, [action_type |-> "security_alert",
                                                      email |-> client_ip,
                                                      timestamp |-> utcnow])
                             ELSE audit_logs
                       /\ blocked_ips' = blocked_ips \cup {client_ip}
                       /\ unblock_tasks' = unblock_tasks \cup
                             {[ip |-> client_ip, at |-> now + lockout_duration_minutes * 60]}
                       /\ limiter_log' = Logged(client_ip, FALSE, "429")
    /\ UNCHANGED now
    /\ UNCHANGED limiterFrame

\* time passes; the remove_block tasks whose sleep has ended unblock their
\* address
LimiterWait(d) ==
    /\ now + d <= MaxLimiterTime
    /\ now' = now + d
    /\ LET due == {task \in unblock_tasks : task.at <= now + d}
       IN /\ blocked_ips' = blocked_ips \ {task.ip : task \in due}
          /\ unblock_tasks' = unblock_tasks \ due
    /\ UNCHANGED <<rate_limit_cache, limiter_log, audit_logs>>
    /\ UNCHANGED limiterFrame

LimiterNext ==
    \/ \E ip \in ClientIps : rate_limit_middleware(ip)
    \/ \E d \in LimiterSteps : LimiterWait(d)

InitLimiter == CacheIdle /\ QueryIdle /\ ApiIdle /\ SgxIdle /\ ExtIdle

SpecLimiter == InitLimiter /\ [][LimiterNext]_vars

\* C39: a request that did not pass came from an address that was blocked
\* or that made more than ip_rate_limit requests, this one included, during
\* the 60 seconds before it.
C39_RejectsOnlyOverLimit ==
    \A i \in 1..Len(limiter_log) :
        limiter_log[i].outcome # "pass"
        => \/ limiter_log[i].blocked
           \/ Cardinality(RecentRequests(i)) > ip_rate_limit


(***************************************************************************)
(* HexagonalQueryEngine.get_neighbors.  Cell.coordinates is the text "x,y" *)
(* of two integers, which the code parses and formats back; the model      *)
(* keeps the pair <<x, y>>.  An entry of the result is kept as its         *)
(* coordinates and its depth field.  visited and result are the set and    *)
(* the list the recursion shares.                                          *)
(***************************************************************************)
MaxDepth == 2
GridCells == {<<0, 0>>, <<0, -1>>, <<1, -1>>, <<1, 0>>, <<2, -2>>, <<-1, 0>>, <<3, 0>>}

neighbor_coords(x, y) ==
    << <<x, y - 1>>, <<x + 1, y - 1>>, <<x + 1, y>>, <<x, y + 1>>, <<x - 1, y + 1>>,
       <<x - 1, y>> >>

RECURSIVE _get_neighbors_recursive(_, _, _, _, _)
RECURSIVE VisitEach(_, _, _, _, _)

\* acc is [result, visited]
_get_neighbors_recursive(cells, at, depth, acc, current_depth) ==
    IF current_depth > depth \/ at \in acc.visited THEN acc
    ELSE LET here == [result |-> IF at \in cells
                                 THEN Append(acc.result,
                                             [coordinates |-> at, depth |-> current_depth])
                                 ELSE acc.result,
                      visited |-> acc.visited \cup {at}]
         IN IF current_depth < depth
            THEN VisitEach(cells, neighbor_coords(at[1], at[2]), depth, here,
                           current_depth + 1)
            ELSE here

\* for nx, ny in neighbor_coords: self._get_neighbors_recursive(...)
VisitEach(cells, coords, depth, acc, current_depth) ==
    IF coords = <<>> THEN acc
    ELSE VisitEach(cells, Tail(coords), depth,
                   _get_neighbors_recursive(cells, Head(coords), depth, acc, current_depth),
                   current_depth)

get_neighbors(cells, cell, depth) ==
    IF cell \notin cells THEN <<>>
    ELSE _get_neighbors_recursive(cells, cell, depth,
                                  [result |-> <<>>, visited |-> {}], 0).result

hexFrame == <<cacheVars, queryVars, apiVars, sgxVars, busVars, catalogVars, lockVars,
              reqVars, threadVars, keyVars, consumerVars, limiterVars>>

GetNeighbors(cell, depth) ==
    /\ hex_call' = [op |-> "get_neighbors", cell |-> cell, depth |-> depth,
                    neighbors |-> get_neighbors(hex_cells, cell, depth)]
    /\ UNCHANGED hex_cells
    /\ UNCHANGED hexFrame

HexNext == \E cell \in GridCells, depth \in 0..MaxDepth : GetNeighbors(cell, depth)

\* any set of cells on the grid
InitHex ==
    /\ hex_cells \in SUBSET GridCells
    /\ hex_call = NoHexCall
    /\ CacheIdle /\ QueryIdle /\ ApiIdle /\ SgxIdle
    /\ CatalogIdle /\ LockIdle /\ RequestsIdle
    /\ ThreadsIdle /\ DeriversIdle /\ ConsumerIdle /\ LimiterIdle

SpecHex == InitHex /\ [][HexNext]_vars

Abs(n) == IF n < 0 THEN -n ELSE n

Max3(a, b, c) == IF a >= b /\ a >= c THEN a ELSE IF b >= c THEN b ELSE c

\* the number of steps between two cells of the hexagonal grid whose six
\* neighbours are those of neighbor_coords
HexDistance(a, b) == Max3(Abs(a[1] - b[1]), Abs(a[2] - b[2]),
                          Abs((a[1] - b[1]) + (a[2] - b[2])))

\* C40: get_neighbors(cell, depth) of an existing cell returns exactly the
\* existing cells at grid distance at most depth, each of them once, with
\* its depth field equal to that distance.
C40_NeighborsWithinDistance ==
    (hex_call.op = "get_neighbors" /\ hex_call.cell \in hex_cells)
    => LET found == hex_call.neighbors
       IN /\ {found[i].coordinates : i \in 1..Len(found)} =
                {c \in hex_cells : HexDistance(hex_call.cell, c) <= hex_call.depth}
          /\ \A i, j \in 1..Len(found) :
                found[i].coordinates = found[j].coordinates => i = j
          /\ \A i \in 1..Len(found) :
                found[i].depth = HexDistance(hex_call.cell, found[i].coordinates)

====
